---- MODULE Spec2Model ----
(***************************************************************************)
(* Model of the cloud_automation package: the four in-memory resource      *)
(* managers (EC2Manager, S3Manager, RDSManager, LambdaManager) and the     *)
(* AWSAutomation orchestrator that owns one of each.                       *)
(*                                                                         *)
(* A Python dict is modelled as a sequence of [k, v] entries in insertion  *)
(* order with pairwise distinct keys; keyword arguments of a call are       *)
(* modelled as functions from the supplied keyword names to their values,  *)
(* so an omitted keyword is a name outside the DOMAIN.                     *)
(*                                                                         *)
(* Fields that are wall-clock readings or random decorations with no       *)
(* influence on control flow (creation_date, launch_time, last_modified,   *)
(* etag, public_ip, private_ip, endpoint, code_sha256) are left out of the *)
(* records.  The random instance id of EC2Manager is kept: it is the       *)
(* registry key, and it is drawn nondeterministically from InstanceIds.    *)
(*                                                                         *)
(* Every manager stores the tags dict it is given, not a copy, and         *)
(* tag_instance changes that dict in place.  The records hold the content  *)
(* of the dict; kept_tags, shares and bucket_shares say which records hold *)
(* one and the same dict object, the one the caller keeps between calls.   *)
(*                                                                         *)
(* Spec is the package as it is written for: one caller, every method call *)
(* one step.  RaceSpec is the same code under two callers that share one   *)
(* manager without mutual exclusion: create_bucket, put_object and         *)
(* RDSManager.create_instance run statement by statement.                  *)
(***************************************************************************)
EXTENDS Integers, Sequences, FiniteSets, TLC

VARIABLES
    constructed,  \* which object the caller constructed: one manager on its
                  \* own (as the unit tests do), an EC2Manager next to an
                  \* S3Manager, or the AWSAutomation orchestrator
    ec2,          \* EC2Manager.instances
    s3,           \* S3Manager.buckets
    rds,          \* RDSManager.instances
    lam,          \* LambdaManager.functions
    provisioned,  \* the caller's copy of what the last provision returned
                  \* (main.py keeps it for the cleanup), Empty before any
    kept_tags,    \* the content of the one tags dict the caller keeps and hands
                  \* to create_instance more than once
    shares,       \* the keys of EC2Manager.instances whose record holds that
                  \* very dict object under "tags" ("tags or {}" stores the
                  \* caller's object, not a copy)
    bucket_shares, \* the keys of S3Manager.buckets whose record holds it
    call,         \* the last completed call: its name, arguments and return value
                  \* (ret, a one-field record named after the type returned)
    caller        \* for each of two callers that share one manager without
                  \* mutual exclusion: the statement it is at within its call
                  \* (pc) and the call's local variables; all idle when there
                  \* is one caller

vars == <<constructed, ec2, s3, rds, lam, provisioned, kept_tags, shares, bucket_shares,
         call, caller>>

-----------------------------------------------------------------------------
(* Bounds *)

\* put_object is not called once a bucket's size_bytes would exceed this
MaxSizeBytes == 2
\* longest object body the caller passes to put_object
MaxBodyLen == 2
\* invoke_function is not called once a function's counter has reached this
MaxInvocations == 2
\* the number of calls each of the two concurrent callers makes at most
MaxCalls == 2

-----------------------------------------------------------------------------
(* Python values *)

\* Python's None where a string is expected
None == "None"

\* Python's None where a dict is expected: a record with the one field None,
\* which no record of a registry has
Null == [None |-> TRUE]

\* the empty dict {} / empty list []
Empty == <<>>

\* d.get(k, v): the value under key k, or v when the key is missing
Arg(p, k, d) == IF k \in DOMAIN p THEN p[k] ELSE d

\* binding of keyword arguments p to a signature with the defaults sig:
\* a supplied keyword wins, an omitted one takes its default
Bind(p, sig) == p @@ sig

\* (x or d) for a string x
StrOr(x, d) == IF x = None \/ x = "" THEN d ELSE x

\* (x or d) for a dict or list x
CollOr(x, d) == IF DOMAIN x = {} THEN d ELSE x

\* dict operations, insertion-ordered
DictHas(d, k) == \E i \in 1..Len(d) : d[i].k = k

DictGet(d, k) == d[CHOOSE i \in 1..Len(d) : d[i].k = k].v

\* dict[key] = value that puts a new key in front of the keys already there
DictSet_newest_first(d, key, value) ==
    IF DictHas(d, key)
    THEN [i \in 1..Len(d) |-> IF d[i].k = key THEN [k |-> key, v |-> value] ELSE d[i]]
    ELSE <<[k |-> key, v |-> value]>> \o d

\* d[k] = v: an existing key keeps its position, a new key goes last
DictSet(d, k, v) ==
    IF DictHas(d, k)
    THEN LET i == CHOOSE j \in 1..Len(d) : d[j].k = k
         IN  SubSeq(d, 1, i - 1) \o <<[k |-> k, v |-> v]>> \o SubSeq(d, i + 1, Len(d))
    ELSE Append(d, [k |-> k, v |-> v])

\* del d[k]
DictDel(d, k) == SelectSeq(d, LAMBDA e : e.k # k)

\* list(d.values())
DictValues(d) == [i \in 1..Len(d) |-> d[i].v]

\* d.update(t): the keys of t take t's values, the other keys of d stay
DictUpdate(d, t) == t @@ d

\* list.remove(x): drops the first element equal to x
ListRemove(s, x) ==
    LET i == CHOOSE j \in 1..Len(s) : s[j] = x /\ \A h \in 1..(j - 1) : s[h] # x
    IN  SubSeq(s, 1, i - 1) \o SubSeq(s, i + 1, Len(s))

\* the set of elements of a list
Range(s) == {s[i] : i \in 1..Len(s)}

-----------------------------------------------------------------------------
(* S3Manager *)

S3Init == Empty

\* signature defaults of create_bucket; tags = None is written as the empty dict
create_bucket_defaults ==
    [region |-> "us-east-1", acl |-> "private", versioning |-> FALSE,
     encryption |-> TRUE, tags |-> Empty]

\* create_bucket without the early return: a duplicate name replaces the record
create_bucket_upsert(buckets, p) ==
    LET a == Bind(p, create_bucket_defaults)
    IN  [reg |-> DictSet(buckets, a.bucket_name,
                         [bucket_name |-> a.bucket_name, region |-> a.region,
                          acl |-> a.acl, versioning |-> a.versioning,
                          encryption |-> a.encryption, tags |-> CollOr(a.tags, Empty),
                          objects |-> Empty, size_bytes |-> 0]),
         ret |-> a.bucket_name]

create_bucket(buckets, p) ==
    LET a == Bind(p, create_bucket_defaults)
        bucket_name == a.bucket_name
        bucket_info ==
            [bucket_name |-> bucket_name,
             region      |-> a.region,
             acl         |-> a.acl,
             versioning  |-> a.versioning,
             encryption  |-> a.encryption,
             tags        |-> CollOr(a.tags, Empty),
             objects     |-> Empty,
             size_bytes  |-> 0]
    IN  IF DictHas(buckets, bucket_name)
        THEN [reg |-> buckets, ret |-> bucket_name]
        ELSE [reg |-> DictSet(buckets, bucket_name, bucket_info), ret |-> bucket_name]

\* delete_bucket with the test of the force flag inverted
delete_bucket_force_inverted(buckets, bucket_name, force) ==
    IF ~DictHas(buckets, bucket_name)
    THEN [reg |-> buckets, ret |-> FALSE]
    ELSE IF DictGet(buckets, bucket_name).objects # Empty /\ force
         THEN [reg |-> buckets, ret |-> FALSE]
         ELSE [reg |-> DictDel(buckets, bucket_name), ret |-> TRUE]

delete_bucket(buckets, bucket_name, force) ==
    IF ~DictHas(buckets, bucket_name)
    THEN [reg |-> buckets, ret |-> FALSE]
    ELSE LET bucket == DictGet(buckets, bucket_name)
         IN  IF bucket.objects # Empty /\ ~force
             THEN [reg |-> buckets, ret |-> FALSE]
             ELSE [reg |-> DictDel(buckets, bucket_name), ret |-> TRUE]

\* signature defaults of put_object; metadata = None is written as the empty dict
put_object_defaults == [body |-> "", metadata |-> Empty]

\* put_object that appends without dropping the object that has the key
put_object_append_only(buckets, bucket_name, key, p) ==
    IF ~DictHas(buckets, bucket_name)
    THEN [reg |-> buckets, ret |-> FALSE]
    ELSE LET a == Bind(p, put_object_defaults)
             bucket == DictGet(buckets, bucket_name)
         IN  [reg |-> DictSet(buckets, bucket_name,
                              [bucket EXCEPT
                                  !.objects = Append(@, [key |-> key, size |-> Len(a.body),
                                                         metadata |-> CollOr(a.metadata, Empty)]),
                                  !.size_bytes = @ + Len(a.body)]),
              ret |-> TRUE]

\* put_object that leaves size_bytes as it is
put_object_no_size(buckets, bucket_name, key, p) ==
    IF ~DictHas(buckets, bucket_name)
    THEN [reg |-> buckets, ret |-> FALSE]
    ELSE LET a == Bind(p, put_object_defaults)
             bucket == DictGet(buckets, bucket_name)
             kept == SelectSeq(bucket.objects, LAMBDA obj : obj.key # key)
         IN  [reg |-> DictSet(buckets, bucket_name,
                              [bucket EXCEPT
                                  !.objects = Append(kept, [key |-> key, size |-> Len(a.body),
                                                            metadata |-> CollOr(a.metadata, Empty)])]),
              ret |-> TRUE]

put_object(buckets, bucket_name, key, p) ==
    IF ~DictHas(buckets, bucket_name)
    THEN [reg |-> buckets, ret |-> FALSE]
    ELSE LET a == Bind(p, put_object_defaults)
             object_info ==
                 [key      |-> key,
                  size     |-> Len(a.body),
                  metadata |-> CollOr(a.metadata, Empty)]
             bucket  == DictGet(buckets, bucket_name)
             kept    == SelectSeq(bucket.objects, LAMBDA obj : obj.key # key)
             bucket2 == [bucket EXCEPT
                            !.objects = Append(kept, object_info),
                            !.size_bytes = @ + object_info.size]
         IN  [reg |-> DictSet(buckets, bucket_name, bucket2), ret |-> TRUE]

\* delete_object that empties the bucket when it finds the key
delete_object_clears(buckets, bucket_name, key) ==
    IF ~DictHas(buckets, bucket_name)
    THEN [reg |-> buckets, ret |-> FALSE]
    ELSE LET bucket == DictGet(buckets, bucket_name)
         IN  IF \A i \in 1..Len(bucket.objects) : bucket.objects[i].key # key
             THEN [reg |-> buckets, ret |-> FALSE]
             ELSE [reg |-> DictSet(buckets, bucket_name,
                                   [bucket EXCEPT !.size_bytes = 0, !.objects = <<>>]),
                   ret |-> TRUE]

delete_object(buckets, bucket_name, key) ==
    IF ~DictHas(buckets, bucket_name)
    THEN [reg |-> buckets, ret |-> FALSE]
    ELSE LET bucket == DictGet(buckets, bucket_name)
             hits   == {i \in 1..Len(bucket.objects) : bucket.objects[i].key = key}
         IN  IF hits = {}
             THEN [reg |-> buckets, ret |-> FALSE]
             ELSE LET obj     == bucket.objects[CHOOSE i \in hits : \A j \in hits : i <= j]
                      bucket2 == [bucket EXCEPT
                                     !.size_bytes = @ - obj.size,
                                     !.objects = ListRemove(@, obj)]
                  IN  [reg |-> DictSet(buckets, bucket_name, bucket2), ret |-> TRUE]

list_buckets(buckets) == DictValues(buckets)

\* str.startswith(prefix)
StartsWith(str, prefix) ==
    Len(prefix) <= Len(str) /\ SubSeq(str, 1, Len(prefix)) = prefix

\* prefix = "" (the default) is falsy: no filter
list_objects(buckets, bucket_name, prefix) ==
    IF ~DictHas(buckets, bucket_name)
    THEN <<>>
    ELSE LET objects == DictGet(buckets, bucket_name).objects
         IN  IF prefix # ""
             THEN SelectSeq(objects, LAMBDA obj : StartsWith(obj.key, prefix))
             ELSE objects

get_bucket_info(buckets, bucket_name) ==
    IF DictHas(buckets, bucket_name) THEN DictGet(buckets, bucket_name) ELSE Null

enable_versioning(buckets, bucket_name) ==
    IF DictHas(buckets, bucket_name)
    THEN [reg |-> DictSet(buckets, bucket_name,
                          [DictGet(buckets, bucket_name) EXCEPT !.versioning = TRUE]),
          ret |-> TRUE]
    ELSE [reg |-> buckets, ret |-> FALSE]

-----------------------------------------------------------------------------
(* EC2Manager *)

\* instance_id is the outcome of _generate_instance_id(): 17 random hex digits,
\* drawn without looking at the registry
\* signature defaults of EC2Manager.create_instance; security_groups = None and
\* tags = None are written as the empty list and dict
EC2_create_instance_defaults ==
    [instance_type |-> "t2.micro", ami_id |-> "ami-default", key_name |-> None,
     security_groups |-> Empty, tags |-> Empty]

\* create_instance that makes room for the new record by dropping the oldest one
EC2_create_instance_evicts(instances, instance_id, p) ==
    LET a == Bind(p, EC2_create_instance_defaults)
        instance_info ==
            [instance_id     |-> instance_id,
             instance_type   |-> a.instance_type,
             ami_id          |-> a.ami_id,
             key_name        |-> a.key_name,
             security_groups |-> CollOr(a.security_groups, Empty),
             tags            |-> CollOr(a.tags, Empty),
             state           |-> "running"]
        room == IF instances = <<>> \/ DictHas(instances, instance_id)
                THEN instances ELSE Tail(instances)
    IN  [reg |-> DictSet(room, instance_id, instance_info), ret |-> instance_id]

EC2_create_instance(instances, instance_id, p) ==
    LET a == Bind(p, EC2_create_instance_defaults)
        instance_info ==
            [instance_id     |-> instance_id,
             instance_type   |-> a.instance_type,
             ami_id          |-> a.ami_id,
             key_name        |-> a.key_name,
             security_groups |-> CollOr(a.security_groups, Empty),
             tags            |-> CollOr(a.tags, Empty),
             state           |-> "running"]
    IN  [reg |-> DictSet(instances, instance_id, instance_info), ret |-> instance_id]

\* terminate_instance that drops the record from the registry
terminate_instance_removes(instances, instance_id) ==
    IF DictHas(instances, instance_id)
    THEN [reg |-> DictDel(instances, instance_id), ret |-> TRUE]
    ELSE [reg |-> instances, ret |-> FALSE]

terminate_instance(instances, instance_id) ==
    IF DictHas(instances, instance_id)
    THEN [reg |-> DictSet(instances, instance_id,
                          [DictGet(instances, instance_id) EXCEPT !.state = "terminated"]),
          ret |-> TRUE]
    ELSE [reg |-> instances, ret |-> FALSE]

\* stop_instance without the check of the current state
EC2_stop_instance_any_state(instances, instance_id) ==
    IF DictHas(instances, instance_id)
    THEN [reg |-> DictSet(instances, instance_id,
                          [DictGet(instances, instance_id) EXCEPT !.state = "stopped"]),
          ret |-> TRUE]
    ELSE [reg |-> instances, ret |-> FALSE]

EC2_stop_instance(instances, instance_id) ==
    IF DictHas(instances, instance_id)
       /\ DictGet(instances, instance_id).state = "running"
    THEN [reg |-> DictSet(instances, instance_id,
                          [DictGet(instances, instance_id) EXCEPT !.state = "stopped"]),
          ret |-> TRUE]
    ELSE [reg |-> instances, ret |-> FALSE]

EC2_start_instance(instances, instance_id) ==
    IF DictHas(instances, instance_id)
       /\ DictGet(instances, instance_id).state = "stopped"
    THEN [reg |-> DictSet(instances, instance_id,
                          [DictGet(instances, instance_id) EXCEPT !.state = "running"]),
          ret |-> TRUE]
    ELSE [reg |-> instances, ret |-> FALSE]

EC2_get_instance_info(instances, instance_id) ==
    IF DictHas(instances, instance_id) THEN DictGet(instances, instance_id) ELSE Null

\* list_instances that forgets the filter
EC2_list_instances_unfiltered(instances, state) == DictValues(instances)

\* state = None (the default) and state = "" are both falsy: no filter
EC2_list_instances(instances, state) ==
    IF state # None /\ state # ""
    THEN SelectSeq(DictValues(instances), LAMBDA info : info.state = state)
    ELSE DictValues(instances)

\* the keys of the records whose "tags" entry is the dict object that the
\* record of instance_id holds: the record itself, and when it holds the dict
\* the caller keeps, every record that holds it
SameTagsObject(sharing, instance_id) ==
    IF instance_id \in sharing THEN sharing ELSE {instance_id}

\* tag_instance that replaces the tag map by the given one
tag_instance_replace(instances, same, instance_id, tags) ==
    IF DictHas(instances, instance_id)
    THEN [reg |-> [i \in 1..Len(instances) |->
                      IF instances[i].k \in same
                      THEN [instances[i] EXCEPT !.v.tags = tags]
                      ELSE instances[i]],
          ret |-> TRUE]
    ELSE [reg |-> instances, ret |-> FALSE]

\* instances[instance_id]["tags"].update(tags) changes the dict object in
\* place, so every record that holds this object (same) shows the new content
tag_instance(instances, same, instance_id, tags) ==
    IF DictHas(instances, instance_id)
    THEN [reg |-> [i \in 1..Len(instances) |->
                      IF instances[i].k \in same
                      THEN [instances[i] EXCEPT !.v.tags = DictUpdate(@, tags)]
                      ELSE instances[i]],
          ret |-> TRUE]
    ELSE [reg |-> instances, ret |-> FALSE]

\* what that update in place does to S3Manager.buckets: a bucket created
\* with the same dict object ("tags": tags or {}) shows the new content too
SharedTagsUpdate(buckets, holders, tags) ==
    [i \in 1..Len(buckets) |->
        IF buckets[i].k \in holders
        THEN [buckets[i] EXCEPT !.v.tags = DictUpdate(@, tags)]
        ELSE buckets[i]]

-----------------------------------------------------------------------------
(* RDSManager *)

\* signature defaults of RDSManager.create_instance; tags = None is written as
\* the empty dict
RDS_create_instance_defaults ==
    [engine |-> "mysql", engine_version |-> "8.0", instance_class |-> "db.t3.micro",
     allocated_storage |-> 20, db_name |-> None, master_username |-> "admin",
     master_password |-> "changeme", multi_az |-> FALSE,
     backup_retention_period |-> 7, tags |-> Empty]

\* create_instance with "backup_retention_period or 7": a supplied 0 is lost
RDS_create_instance_falsy_retention(instances, p) ==
    LET a == Bind(p, RDS_create_instance_defaults)
        id == a.db_instance_identifier
    IN  IF DictHas(instances, id)
        THEN [reg |-> instances, ret |-> id]
        ELSE [reg |-> DictSet(instances, id,
                         [db_instance_identifier  |-> id,
                          engine                  |-> a.engine,
                          engine_version          |-> a.engine_version,
                          instance_class          |-> a.instance_class,
                          allocated_storage       |-> a.allocated_storage,
                          db_name                 |-> StrOr(a.db_name, id),
                          master_username         |-> a.master_username,
                          multi_az                |-> a.multi_az,
                          backup_retention_period |->
                              IF a.backup_retention_period = 0
                              THEN 7 ELSE a.backup_retention_period,
                          tags                    |-> CollOr(a.tags, Empty),
                          status                  |-> "available",
                          port                    |-> IF a.engine = "mysql"
                                                      THEN 3306 ELSE 5432]),
              ret |-> id]

\* create_instance that gives 5432 to postgres and 3306 to every other engine
RDS_create_instance_postgres_port(instances, p) ==
    LET a == Bind(p, RDS_create_instance_defaults)
        db_instance_identifier == a.db_instance_identifier
        instance_info ==
            [db_instance_identifier  |-> db_instance_identifier,
             engine                  |-> a.engine,
             engine_version          |-> a.engine_version,
             instance_class          |-> a.instance_class,
             allocated_storage       |-> a.allocated_storage,
             db_name                 |-> StrOr(a.db_name, db_instance_identifier),
             master_username         |-> a.master_username,
             multi_az                |-> a.multi_az,
             backup_retention_period |-> a.backup_retention_period,
             tags                    |-> CollOr(a.tags, Empty),
             status                  |-> "available",
             port                    |-> IF a.engine = "postgres" THEN 5432 ELSE 3306]
    IN  IF DictHas(instances, db_instance_identifier)
        THEN [reg |-> instances, ret |-> db_instance_identifier]
        ELSE [reg |-> DictSet(instances, db_instance_identifier, instance_info),
              ret |-> db_instance_identifier]

RDS_create_instance(instances, p) ==
    LET a == Bind(p, RDS_create_instance_defaults)
        db_instance_identifier == a.db_instance_identifier
        instance_info ==
            [db_instance_identifier  |-> db_instance_identifier,
             engine                  |-> a.engine,
             engine_version          |-> a.engine_version,
             instance_class          |-> a.instance_class,
             allocated_storage       |-> a.allocated_storage,
             db_name                 |-> StrOr(a.db_name, db_instance_identifier),
             master_username         |-> a.master_username,
             multi_az                |-> a.multi_az,
             backup_retention_period |-> a.backup_retention_period,
             tags                    |-> CollOr(a.tags, Empty),
             status                  |-> "available",
             port                    |-> IF a.engine = "mysql" THEN 3306 ELSE 5432]
    IN  IF DictHas(instances, db_instance_identifier)
        THEN [reg |-> instances, ret |-> db_instance_identifier]
        ELSE [reg |-> DictSet(instances, db_instance_identifier, instance_info),
              ret |-> db_instance_identifier]

\* delete_instance that marks the record and leaves the removal for later
delete_instance_deferred(instances, db_instance_identifier) ==
    IF ~DictHas(instances, db_instance_identifier)
    THEN [reg |-> instances, ret |-> FALSE]
    ELSE [reg |-> DictSet(instances, db_instance_identifier,
                          [DictGet(instances, db_instance_identifier)
                              EXCEPT !.status = "deleting"]),
          ret |-> TRUE]

\* delete_instance that reports the deletion and keeps the record, stopped
delete_instance_soft(instances, db_instance_identifier) ==
    IF ~DictHas(instances, db_instance_identifier)
    THEN [reg |-> instances, ret |-> FALSE]
    ELSE [reg |-> DictSet(instances, db_instance_identifier,
                          [DictGet(instances, db_instance_identifier)
                              EXCEPT !.status = "stopped"]),
          ret |-> TRUE]

\* delete_instance that removes only an available instance and leaves any
\* other one in the registry, marked
delete_instance_available_only(instances, db_instance_identifier) ==
    IF ~DictHas(instances, db_instance_identifier)
    THEN [reg |-> instances, ret |-> FALSE]
    ELSE LET marked == DictSet(instances, db_instance_identifier,
                               [DictGet(instances, db_instance_identifier)
                                   EXCEPT !.status = "deleting"])
         IN  [reg |-> IF DictGet(instances, db_instance_identifier).status = "available"
                      THEN DictDel(marked, db_instance_identifier)
                      ELSE marked,
              ret |-> TRUE]

\* the status is set to "deleting" and the record removed within the same call
delete_instance(instances, db_instance_identifier) ==
    IF ~DictHas(instances, db_instance_identifier)
    THEN [reg |-> instances, ret |-> FALSE]
    ELSE LET marked == DictSet(instances, db_instance_identifier,
                               [DictGet(instances, db_instance_identifier)
                                   EXCEPT !.status = "deleting"])
         IN  [reg |-> DictDel(marked, db_instance_identifier), ret |-> TRUE]

RDS_stop_instance(instances, db_instance_identifier) ==
    IF DictHas(instances, db_instance_identifier)
       /\ DictGet(instances, db_instance_identifier).status = "available"
    THEN [reg |-> DictSet(instances, db_instance_identifier,
                          [DictGet(instances, db_instance_identifier)
                              EXCEPT !.status = "stopped"]),
          ret |-> TRUE]
    ELSE [reg |-> instances, ret |-> FALSE]

\* start_instance that reports success on an instance that is already available
RDS_start_instance_always_true(instances, db_instance_identifier) ==
    IF DictHas(instances, db_instance_identifier)
    THEN [reg |-> DictSet(instances, db_instance_identifier,
                          [DictGet(instances, db_instance_identifier)
                              EXCEPT !.status = "available"]),
          ret |-> TRUE]
    ELSE [reg |-> instances, ret |-> FALSE]

RDS_start_instance(instances, db_instance_identifier) ==
    IF DictHas(instances, db_instance_identifier)
       /\ DictGet(instances, db_instance_identifier).status = "stopped"
    THEN [reg |-> DictSet(instances, db_instance_identifier,
                          [DictGet(instances, db_instance_identifier)
                              EXCEPT !.status = "available"]),
          ret |-> TRUE]
    ELSE [reg |-> instances, ret |-> FALSE]

RDS_get_instance_info(instances, db_instance_identifier) ==
    IF DictHas(instances, db_instance_identifier)
    THEN DictGet(instances, db_instance_identifier)
    ELSE Null

\* create_snapshot that refuses an instance that is not available
create_snapshot_available_only(instances, db_instance_identifier, snapshot_identifier) ==
    IF ~DictHas(instances, db_instance_identifier)
       \/ DictGet(instances, db_instance_identifier).status # "available"
    THEN None
    ELSE snapshot_identifier

\* nothing is stored: the call only reports the snapshot identifier back
create_snapshot(instances, db_instance_identifier, snapshot_identifier) ==
    IF ~DictHas(instances, db_instance_identifier)
    THEN None
    ELSE snapshot_identifier

\* modify_instance without the look-up of the identifier
modify_instance_no_check(instances, db_instance_identifier, p) ==
    [reg |-> instances, ret |-> TRUE]

\* p: the keywords supplied among instance_class, allocated_storage and
\* backup_retention_period (each defaults to None; further keywords are
\* ignored).  instance_class and allocated_storage are tested for truth, so
\* "" and 0 count as not supplied; backup_retention_period is tested against
\* None, so 0 is taken.
modify_instance(instances, db_instance_identifier, p) ==
    IF ~DictHas(instances, db_instance_identifier)
    THEN [reg |-> instances, ret |-> FALSE]
    ELSE LET instance == DictGet(instances, db_instance_identifier)
             i1 == IF "instance_class" \in DOMAIN p /\ p.instance_class # ""
                   THEN [instance EXCEPT !.instance_class = p.instance_class]
                   ELSE instance
             i2 == IF "allocated_storage" \in DOMAIN p /\ p.allocated_storage # 0
                   THEN [i1 EXCEPT !.allocated_storage = p.allocated_storage]
                   ELSE i1
             i3 == IF "backup_retention_period" \in DOMAIN p
                   THEN [i2 EXCEPT !.backup_retention_period = p.backup_retention_period]
                   ELSE i2
         IN  [reg |-> DictSet(instances, db_instance_identifier, i3), ret |-> TRUE]

\* engine = None (the default) and engine = "" are both falsy: no filter
RDS_list_instances(instances, engine) ==
    IF engine # None /\ engine # ""
    THEN SelectSeq(DictValues(instances), LAMBDA info : info.engine = engine)
    ELSE DictValues(instances)

-----------------------------------------------------------------------------
(* LambdaManager *)

\* signature defaults of create_function; environment = None and tags = None
\* are written as the empty dict
create_function_defaults ==
    [runtime |-> "python3.9", handler |-> "index.handler",
     role |-> "arn:aws:iam::123456789012:role/lambda-role", code |-> None,
     description |-> "", timeout |-> 3, memory_size |-> 128,
     environment |-> Empty, tags |-> Empty]

create_function(functions, p) ==
    LET a == Bind(p, create_function_defaults)
        function_name == a.function_name
        function_info ==
            [function_name |-> function_name,
             function_arn  |-> "arn:aws:lambda:us-east-1:123456789012:function:"
                                   \o function_name,
             runtime       |-> a.runtime,
             handler       |-> a.handler,
             role          |-> a.role,
             description   |-> a.description,
             timeout       |-> a.timeout,
             memory_size   |-> a.memory_size,
             environment   |-> CollOr(a.environment, Empty),
             tags          |-> CollOr(a.tags, Empty),
             code_size     |-> IF a.code # None /\ a.code # "" THEN Len(a.code) ELSE 1024,
             version       |-> "$LATEST",
             state         |-> "Active",
             invocations   |-> 0]
    IN  IF DictHas(functions, function_name)
        THEN [reg |-> functions, ret |-> function_name]
        ELSE [reg |-> DictSet(functions, function_name, function_info),
              ret |-> function_name]

\* delete_function that reports success and leaves the record in place
delete_function_keeps(functions, function_name) ==
    IF ~DictHas(functions, function_name)
    THEN [reg |-> functions, ret |-> FALSE]
    ELSE [reg |-> functions, ret |-> TRUE]

delete_function(functions, function_name) ==
    IF ~DictHas(functions, function_name)
    THEN [reg |-> functions, ret |-> FALSE]
    ELSE [reg |-> DictDel(functions, function_name), ret |-> TRUE]

\* invoke_function that counts the invocation on every function of the registry
invoke_function_counts_all(functions, function_name, payload) ==
    IF ~DictHas(functions, function_name)
    THEN [reg |-> functions, ret |-> [error |-> "Function not found"]]
    ELSE [reg |-> [i \in 1..Len(functions) |->
                      [functions[i] EXCEPT !.v.invocations = @ + 1]],
          ret |-> [status_code |-> 200,
                   executed_version |-> "$LATEST",
                   payload |-> [message |-> "Function executed successfully (simulated)",
                                input |-> CollOr(payload, Empty)]]]

invoke_function(functions, function_name, payload) ==
    IF ~DictHas(functions, function_name)
    THEN [reg |-> functions, ret |-> [error |-> "Function not found"]]
    ELSE [reg |-> DictSet(functions, function_name,
                          [DictGet(functions, function_name)
                              EXCEPT !.invocations = @ + 1]),
          ret |-> [status_code |-> 200,
                   executed_version |-> "$LATEST",
                   payload |-> [message |-> "Function executed successfully (simulated)",
                                input |-> CollOr(payload, Empty)]]]

\* get_function_info that answers with the oldest record of the registry
get_function_info_oldest(functions, function_name) ==
    IF DictHas(functions, function_name) THEN functions[1].v ELSE Null

get_function_info(functions, function_name) ==
    IF DictHas(functions, function_name) THEN DictGet(functions, function_name) ELSE Null

list_functions(functions) == DictValues(functions)

\* p: the keyword code when supplied (it defaults to None; further keywords
\* are ignored); a code of "" is falsy and keeps the old code_size
update_function_code(functions, function_name, p) ==
    IF ~DictHas(functions, function_name)
    THEN [reg |-> functions, ret |-> FALSE]
    ELSE LET function == DictGet(functions, function_name)
             code     == Arg(p, "code", None)
         IN  [reg |-> DictSet(functions, function_name,
                              [function EXCEPT
                                  !.code_size = IF code # None /\ code # ""
                                                THEN Len(code) ELSE @]),
              ret |-> TRUE]

\* p: the keywords supplied among timeout, memory_size and environment (each
\* defaults to None and is tested against None, so 0 and {} are taken)
update_function_configuration(functions, function_name, p) ==
    IF ~DictHas(functions, function_name)
    THEN [reg |-> functions, ret |-> FALSE]
    ELSE LET function == DictGet(functions, function_name)
             f1 == IF "timeout" \in DOMAIN p
                   THEN [function EXCEPT !.timeout = p.timeout] ELSE function
             f2 == IF "memory_size" \in DOMAIN p
                   THEN [f1 EXCEPT !.memory_size = p.memory_size] ELSE f1
             f3 == IF "environment" \in DOMAIN p
                   THEN [f2 EXCEPT !.environment = p.environment] ELSE f2
         IN  [reg |-> DictSet(functions, function_name, f3), ret |-> TRUE]

\* nothing is stored: the call only acknowledges
add_permission(functions, function_name, statement_id, action, principal) ==
    IF ~DictHas(functions, function_name) THEN FALSE ELSE TRUE

-----------------------------------------------------------------------------
(* AWSAutomation *)

\* the four managers of one orchestrator
Managers(e, s, r, l) == [ec2 |-> e, s3 |-> s, rds |-> r, lambda_mgr |-> l]

\* for ec2_config in infrastructure_config["ec2"]: create, append the id
\* the compute loop with every create applied to the registry as it was before
\* the loop, so that only the last insert survives
RECURSIVE ProvisionEC2_lost_update(_, _, _)
ProvisionEC2_lost_update(instances, configs, ids) ==
    IF configs = <<>>
    THEN [reg |-> instances, ret |-> <<>>, calls |-> <<>>]
    ELSE LET r    == EC2_create_instance(instances, Head(ids), Head(configs))
             rest == ProvisionEC2_lost_update(instances, Tail(configs), Tail(ids))
         IN  [reg |-> IF Tail(configs) = <<>> THEN r.reg ELSE rest.reg,
              ret |-> <<r.ret>> \o rest.ret,
              calls |-> <<[manager |-> "ec2", config |-> Head(configs)]>> \o rest.calls]

RECURSIVE ProvisionEC2(_, _, _)
ProvisionEC2(instances, configs, ids) ==
    IF configs = <<>>
    THEN [reg |-> instances, ret |-> <<>>, calls |-> <<>>]
    ELSE LET r    == EC2_create_instance(instances, Head(ids), Head(configs))
             rest == ProvisionEC2(r.reg, Tail(configs), Tail(ids))
         IN  [reg |-> rest.reg, ret |-> <<r.ret>> \o rest.ret,
              calls |-> <<[manager |-> "ec2", config |-> Head(configs)]>> \o rest.calls]

\* the storage loop appending a name only when the bucket is new
RECURSIVE ProvisionS3_skip_existing(_, _)
ProvisionS3_skip_existing(buckets, configs) ==
    IF configs = <<>>
    THEN [reg |-> buckets, ret |-> <<>>, calls |-> <<>>]
    ELSE LET r    == create_bucket(buckets, Head(configs))
             rest == ProvisionS3_skip_existing(r.reg, Tail(configs))
         IN  [reg |-> rest.reg,
              ret |-> (IF DictHas(buckets, r.ret) THEN <<>> ELSE <<r.ret>>) \o rest.ret,
              calls |-> <<[manager |-> "s3", config |-> Head(configs)]>> \o rest.calls]

RECURSIVE ProvisionS3(_, _)
ProvisionS3(buckets, configs) ==
    IF configs = <<>>
    THEN [reg |-> buckets, ret |-> <<>>, calls |-> <<>>]
    ELSE LET r    == create_bucket(buckets, Head(configs))
             rest == ProvisionS3(r.reg, Tail(configs))
         IN  [reg |-> rest.reg, ret |-> <<r.ret>> \o rest.ret,
              calls |-> <<[manager |-> "s3", config |-> Head(configs)]>> \o rest.calls]

RECURSIVE ProvisionRDS(_, _)
ProvisionRDS(instances, configs) ==
    IF configs = <<>>
    THEN [reg |-> instances, ret |-> <<>>, calls |-> <<>>]
    ELSE LET r    == RDS_create_instance(instances, Head(configs))
             rest == ProvisionRDS(r.reg, Tail(configs))
         IN  [reg |-> rest.reg, ret |-> <<r.ret>> \o rest.ret,
              calls |-> <<[manager |-> "rds", config |-> Head(configs)]>> \o rest.calls]

\* the function loop walking the entries from the last to the first
RECURSIVE ProvisionLambda_reversed(_, _)
ProvisionLambda_reversed(functions, configs) ==
    IF configs = <<>>
    THEN [reg |-> functions, ret |-> <<>>, calls |-> <<>>]
    ELSE LET n    == Len(configs)
             r    == create_function(functions, configs[n])
             rest == ProvisionLambda_reversed(r.reg, SubSeq(configs, 1, n - 1))
         IN  [reg |-> rest.reg, ret |-> <<r.ret>> \o rest.ret,
              calls |-> <<[manager |-> "lambda", config |-> configs[n]]>> \o rest.calls]

RECURSIVE ProvisionLambda(_, _)
ProvisionLambda(functions, configs) ==
    IF configs = <<>>
    THEN [reg |-> functions, ret |-> <<>>, calls |-> <<>>]
    ELSE LET r    == create_function(functions, Head(configs))
             rest == ProvisionLambda(r.reg, Tail(configs))
         IN  [reg |-> rest.reg, ret |-> <<r.ret>> \o rest.ret,
              calls |-> <<[manager |-> "lambda", config |-> Head(configs)]>> \o rest.calls]

\* provision that starts a kind whose key is absent from an empty registry
provision_infrastructure_clears_absent(m, infrastructure_config, ids) ==
    LET e == ProvisionEC2(IF "ec2" \in DOMAIN infrastructure_config THEN m.ec2 ELSE Empty,
                          Arg(infrastructure_config, "ec2", <<>>), ids)
        s == ProvisionS3(IF "s3" \in DOMAIN infrastructure_config THEN m.s3 ELSE Empty,
                         Arg(infrastructure_config, "s3", <<>>))
        r == ProvisionRDS(IF "rds" \in DOMAIN infrastructure_config THEN m.rds ELSE Empty,
                          Arg(infrastructure_config, "rds", <<>>))
        l == ProvisionLambda(IF "lambda" \in DOMAIN infrastructure_config
                             THEN m.lambda_mgr ELSE Empty,
                             Arg(infrastructure_config, "lambda", <<>>))
    IN  [m   |-> Managers(e.reg, s.reg, r.reg, l.reg),
         ret |-> [ec2_instances    |-> e.ret,
                  s3_buckets       |-> s.ret,
                  rds_instances    |-> r.ret,
                  lambda_functions |-> l.ret],
         calls |-> e.calls \o s.calls \o r.calls \o l.calls]

\* ids: the outcomes of _generate_instance_id() for the ec2 entries, in order
provision_infrastructure(m, infrastructure_config, ids) ==
    LET e == IF "ec2" \in DOMAIN infrastructure_config
             THEN ProvisionEC2(m.ec2, infrastructure_config["ec2"], ids)
             ELSE [reg |-> m.ec2, ret |-> <<>>, calls |-> <<>>]
        s == IF "s3" \in DOMAIN infrastructure_config
             THEN ProvisionS3(m.s3, infrastructure_config["s3"])
             ELSE [reg |-> m.s3, ret |-> <<>>, calls |-> <<>>]
        r == IF "rds" \in DOMAIN infrastructure_config
             THEN ProvisionRDS(m.rds, infrastructure_config["rds"])
             ELSE [reg |-> m.rds, ret |-> <<>>, calls |-> <<>>]
        l == IF "lambda" \in DOMAIN infrastructure_config
             THEN ProvisionLambda(m.lambda_mgr, infrastructure_config["lambda"])
             ELSE [reg |-> m.lambda_mgr, ret |-> <<>>, calls |-> <<>>]
    IN  [m   |-> Managers(e.reg, s.reg, r.reg, l.reg),
         ret |-> [ec2_instances    |-> e.ret,
                  s3_buckets       |-> s.ret,
                  rds_instances    |-> r.ret,
                  lambda_functions |-> l.ret],
         \* the create calls made on the managers, in the order they were made
         calls |-> e.calls \o s.calls \o r.calls \o l.calls]

\* the compute loop counting only the instances that were not yet terminated
RECURSIVE DestroyEC2_counts_live(_, _)
DestroyEC2_counts_live(instances, ids) ==
    IF ids = <<>>
    THEN [reg |-> instances, ret |-> 0]
    ELSE LET live == DictHas(instances, Head(ids))
                     /\ DictGet(instances, Head(ids)).state # "terminated"
             r    == terminate_instance(instances, Head(ids))
             rest == DestroyEC2_counts_live(r.reg, Tail(ids))
         IN  [reg |-> rest.reg, ret |-> (IF live THEN 1 ELSE 0) + rest.ret]

\* for instance_id in ...: if terminate_instance(instance_id): count += 1
RECURSIVE DestroyEC2(_, _)
DestroyEC2(instances, ids) ==
    IF ids = <<>>
    THEN [reg |-> instances, ret |-> 0]
    ELSE LET r    == terminate_instance(instances, Head(ids))
             rest == DestroyEC2(r.reg, Tail(ids))
         IN  [reg |-> rest.reg, ret |-> (IF r.ret THEN 1 ELSE 0) + rest.ret]

\* the storage loop deleting with force
RECURSIVE DestroyS3_forces(_, _)
DestroyS3_forces(buckets, names) ==
    IF names = <<>>
    THEN [reg |-> buckets, ret |-> 0]
    ELSE LET r    == delete_bucket(buckets, Head(names), TRUE)
             rest == DestroyS3_forces(r.reg, Tail(names))
         IN  [reg |-> rest.reg, ret |-> (IF r.ret THEN 1 ELSE 0) + rest.ret]

RECURSIVE DestroyS3(_, _)
DestroyS3(buckets, names) ==
    IF names = <<>>
    THEN [reg |-> buckets, ret |-> 0]
    ELSE LET r    == delete_bucket(buckets, Head(names), FALSE)
             rest == DestroyS3(r.reg, Tail(names))
         IN  [reg |-> rest.reg, ret |-> (IF r.ret THEN 1 ELSE 0) + rest.ret]

\* the database loop leaving at the first identifier that is not found
RECURSIVE DestroyRDS_stops_at_unknown(_, _)
DestroyRDS_stops_at_unknown(instances, ids) ==
    IF ids = <<>>
    THEN [reg |-> instances, ret |-> 0]
    ELSE LET r    == delete_instance(instances, Head(ids))
             rest == DestroyRDS_stops_at_unknown(r.reg, Tail(ids))
         IN  IF r.ret
             THEN [reg |-> rest.reg, ret |-> 1 + rest.ret]
             ELSE [reg |-> instances, ret |-> 0]

RECURSIVE DestroyRDS(_, _)
DestroyRDS(instances, ids) ==
    IF ids = <<>>
    THEN [reg |-> instances, ret |-> 0]
    ELSE LET r    == delete_instance(instances, Head(ids))
             rest == DestroyRDS(r.reg, Tail(ids))
         IN  [reg |-> rest.reg, ret |-> (IF r.ret THEN 1 ELSE 0) + rest.ret]

RECURSIVE DestroyLambda(_, _)
DestroyLambda(functions, names) ==
    IF names = <<>>
    THEN [reg |-> functions, ret |-> 0]
    ELSE LET r    == delete_function(functions, Head(names))
             rest == DestroyLambda(r.reg, Tail(names))
         IN  [reg |-> rest.reg, ret |-> (IF r.ret THEN 1 ELSE 0) + rest.ret]

destroy_infrastructure(m, resource_ids) ==
    LET e == DestroyEC2(m.ec2, Arg(resource_ids, "ec2_instances", <<>>))
        s == DestroyS3(m.s3, Arg(resource_ids, "s3_buckets", <<>>))
        r == DestroyRDS(m.rds, Arg(resource_ids, "rds_instances", <<>>))
        l == DestroyLambda(m.lambda_mgr, Arg(resource_ids, "lambda_functions", <<>>))
    IN  [m   |-> Managers(e.reg, s.reg, r.reg, l.reg),
         ret |-> [ec2_terminated |-> e.ret,
                  s3_deleted     |-> s.ret,
                  rds_deleted    |-> r.ret,
                  lambda_deleted |-> l.ret]]

\* get_infrastructure_status that leaves out the terminated instances
get_infrastructure_status_live_only(m) ==
    [ec2_instances    |-> SelectSeq(EC2_list_instances(m.ec2, None),
                                    LAMBDA info : info.state # "terminated"),
     s3_buckets       |-> list_buckets(m.s3),
     rds_instances    |-> RDS_list_instances(m.rds, None),
     lambda_functions |-> list_functions(m.lambda_mgr)]

get_infrastructure_status(m) ==
    [ec2_instances    |-> EC2_list_instances(m.ec2, None),
     s3_buckets       |-> list_buckets(m.s3),
     rds_instances    |-> RDS_list_instances(m.rds, None),
     lambda_functions |-> list_functions(m.lambda_mgr)]

-----------------------------------------------------------------------------
(* The caller's inputs *)

InstanceIds == {"i-1", "i-2"}

BucketNames == {"b1", "b2"}

ObjectKeys == {"k1", "k2"}

DbIds == {"d1", "d2"}

FunctionNames == {"f1", "f2"}

Bodies == {b \in {"", "x", "xy", "xyz", "wxyz"} : Len(b) <= MaxBodyLen}

\* keyword arguments of EC2Manager.create_instance
EC2Rich ==
    [instance_type |-> "t2.small", ami_id |-> "ami-1", key_name |-> "key",
     security_groups |-> <<"sg-1">>, tags |-> [Name |-> "web"]]

EC2Configs == {Empty, EC2Rich}

\* the states of a compute instance, as list_instances documents them
InstanceStates == {"running", "stopped", "terminated"}

\* the tags dict the caller keeps, as first written
KeptTags == [Name |-> "web", Owner |-> "ops"]

\* tag maps handed to tag_instance
TagInputs == {[Name |-> "x", env |-> "p"]}

\* keyword arguments of create_bucket besides the name
BucketRich ==
    [region |-> "us-west-2", acl |-> "public-read", versioning |-> TRUE,
     encryption |-> FALSE, tags |-> [Project |-> "test"]]

BucketOptions == {Empty, BucketRich}

\* the second bucket is only ever created with the defaults
S3Configs ==
    {[bucket_name |-> "b1"] @@ o : o \in BucketOptions} \cup {[bucket_name |-> "b2"]}

\* keyword arguments of put_object besides bucket and key
PutOptions ==
    {Empty} \cup {[body |-> b] : b \in Bodies \ {""}}
            \cup {[body |-> "", metadata |-> [owner |-> "me"]]}

\* the put_object calls the caller makes: <<bucket_name, key, keyword arguments>>
PutCalls ==
    {<<"b1", k, p>> : k \in ObjectKeys, p \in PutOptions} \cup {<<"b2", "k1", [body |-> "x"]>>}

\* prefixes handed to list_objects
Prefixes == {"", "k1"}

\* keyword arguments of RDSManager.create_instance besides the identifier
RDSRich ==
    [engine |-> "postgres", engine_version |-> "15", instance_class |-> "db.m5.large",
     allocated_storage |-> 100, db_name |-> "appdb", master_username |-> "root",
     master_password |-> "secret", multi_az |-> TRUE, backup_retention_period |-> 0,
     tags |-> [Name |-> "db"]]

\* the engines a caller names: the default one, the one of RDSRich, and one more
Engines == {"mysql", "postgres", "mariadb"}

RDSOptions == {Empty, RDSRich, [db_name |-> ""], [engine |-> "mariadb"]}

RDSConfigs ==
    {[db_instance_identifier |-> "d1"] @@ o : o \in RDSOptions}
        \cup {[db_instance_identifier |-> "d2"]}

\* keyword arguments of create_function besides the name
LambdaRich ==
    [runtime |-> "nodejs18.x", handler |-> "app.main", role |-> "arn:aws:iam::1:role/r",
     code |-> "xy", description |-> "worker", timeout |-> 30, memory_size |-> 256,
     environment |-> [STAGE |-> "prod"], tags |-> [Project |-> "test"]]

LambdaOptions == {Empty, LambdaRich, [code |-> ""]}

LambdaConfigs ==
    {[function_name |-> "f1"] @@ o : o \in LambdaOptions} \cup {[function_name |-> "f2"]}

Payloads == {Empty, [data |-> "test"]}

SnapshotIds == {"snap-1", "snap-2"}

\* keyword arguments of modify_instance besides the identifier
ModifyOptions ==
    {Empty,
     [instance_class |-> "db.m5.large", allocated_storage |-> 50,
      backup_retention_period |-> 1],
     [allocated_storage |-> 0, backup_retention_period |-> 0]}

\* keyword arguments of update_function_code besides the name
UpdateCodeOptions == {Empty, [code |-> "xyz"]}

\* keyword arguments of update_function_configuration besides the name
UpdateConfigOptions ==
    {Empty, [timeout |-> 0, memory_size |-> 512, environment |-> [STAGE |-> "dev"]]}

\* infrastructure configurations handed to provision_infrastructure
InfraConfigs ==
    {Empty,
     [ec2 |-> <<>>, s3 |-> <<>>],
     [ec2 |-> <<Empty, EC2Rich>>,
      s3 |-> <<[bucket_name |-> "b1"]>>,
      rds |-> <<[db_instance_identifier |-> "d1"]>>,
      lambda |-> <<[function_name |-> "f1"]>>],
     [ec2 |-> <<Empty>>, s3 |-> <<[bucket_name |-> "b2"]>>],
     [s3 |-> <<[bucket_name |-> "b1"], [bucket_name |-> "b1"] @@ BucketRich>>,
      rds |-> <<[db_instance_identifier |-> "d1"],
                [db_instance_identifier |-> "d1"] @@ RDSRich>>,
      lambda |-> <<[function_name |-> "f1"], [function_name |-> "f1"] @@ LambdaRich>>]}

\* the bucket that a caller holding an EC2Manager and an S3Manager creates
\* with the dict it keeps as tags
SharedTagsBucket(tags) == [bucket_name |-> "b1", tags |-> tags]

\* identifier maps handed to destroy_infrastructure besides a provision result
DestroyInputs ==
    {Empty,
     [ec2_instances |-> <<"i-2", "i-1">>, s3_buckets |-> <<"b2", "b1">>],
     [rds_instances |-> <<"d2", "d1">>, lambda_functions |-> <<"f1", "f1">>]}

\* calls made on the managers of an orchestrator, besides provision and destroy
OrchPutCalls == {<<"b1", "k1", [body |-> "x"]>>}

\* the two callers of the concurrent scenario
Callers == {1, 2}

\* a caller that has not made a call yet.  op and name are the method and the
\* identifier of its current or last call, info the record the call has built
\* (bucket_info, instance_info or object_info), kept and size_read what
\* put_object has read, passed whether the call got past its first test,
\* ret the value returned.  put_object works on the bucket dict it has
\* looked up; when another caller's create_bucket replaces that dict in the
\* registry, detached is set and orphan holds the dict put_object still has.
IdleCaller ==
    [pc |-> "idle", left |-> MaxCalls, op |-> "", name |-> "", info |-> Empty,
     kept |-> Empty, size_read |-> 0, passed |-> FALSE, detached |-> FALSE,
     orphan |-> Empty, ret |-> Empty]

\* what each caller passes: the same bucket name and database identifier with
\* different attributes, and different keys of the same bucket
RaceBucketConfigs == <<[bucket_name |-> "b1"], [bucket_name |-> "b1"] @@ BucketRich>>

RaceDbConfigs ==
    <<[db_instance_identifier |-> "d1"], [db_instance_identifier |-> "d1"] @@ RDSRich>>

RacePutCalls == <<<<"b1", "k1", [body |-> "x"]>>, <<"b1", "k2", [body |-> "xy"]>>>>

-----------------------------------------------------------------------------
(* Actions *)

\* One action per method call.  The outcome r of the call, the registry
\* after it (reg, or m for the orchestrator) and the value returned (ret), is
\* bound by \E r \in {...}, so that it is computed once per step.

Init ==
    /\ constructed \in {"EC2Manager", "S3Manager", "RDSManager", "LambdaManager",
                        "EC2Manager, S3Manager", "AWSAutomation"}
    /\ ec2 = Empty
    /\ s3 = S3Init
    /\ rds = Empty
    /\ lam = Empty
    /\ provisioned = Empty
    /\ kept_tags = KeptTags
    /\ shares = {}
    /\ bucket_shares = {}
    /\ call = [name |-> "__init__"]
    /\ caller = [t \in Callers |-> IdleCaller]

(* EC2Manager *)

\* the caller passes a dict literal as tags, or none, or the dict it keeps;
\* next to an S3Manager, always the dict it keeps
CreateInstance ==
    /\ \E id \in InstanceIds,
          p \in IF constructed = "EC2Manager" THEN EC2Configs \cup {[tags |-> kept_tags]}
                ELSE IF constructed = "EC2Manager, S3Manager" THEN {[tags |-> kept_tags]}
                ELSE {} :
        \E r \in {EC2_create_instance(ec2, id, p)} :
            /\ ec2' = r.reg
            /\ shares' = IF p = [tags |-> kept_tags]
                          THEN shares \cup {r.ret} ELSE shares \ {r.ret}
            /\ call' = [name |-> "ec2.create_instance", config |-> p, ret |-> [id |-> r.ret]]
    /\ UNCHANGED <<constructed, caller, s3, rds, lam, provisioned, kept_tags, bucket_shares>>

TerminateInstance ==
    /\ constructed = "EC2Manager"
    /\ \E id \in InstanceIds :
        \E r \in {terminate_instance(ec2, id)} :
            /\ ec2' = r.reg
            /\ call' = [name |-> "ec2.terminate_instance", id |-> id, ret |-> [bool |-> r.ret]]
    /\ UNCHANGED <<constructed, caller, s3, rds, lam, provisioned, kept_tags, shares, bucket_shares>>

StopInstance ==
    /\ constructed = "EC2Manager"
    /\ \E id \in InstanceIds :
        \E r \in {EC2_stop_instance(ec2, id)} :
            /\ ec2' = r.reg
            /\ call' = [name |-> "ec2.stop_instance", id |-> id, ret |-> [bool |-> r.ret]]
    /\ UNCHANGED <<constructed, caller, s3, rds, lam, provisioned, kept_tags, shares, bucket_shares>>

StartInstance ==
    /\ constructed = "EC2Manager"
    /\ \E id \in InstanceIds :
        \E r \in {EC2_start_instance(ec2, id)} :
            /\ ec2' = r.reg
            /\ call' = [name |-> "ec2.start_instance", id |-> id, ret |-> [bool |-> r.ret]]
    /\ UNCHANGED <<constructed, caller, s3, rds, lam, provisioned, kept_tags, shares, bucket_shares>>

ListInstances ==
    /\ constructed = "EC2Manager"
    /\ \E state \in InstanceStates \cup {None} :
        call' = [name |-> "ec2.list_instances", state |-> state,
                 ret |-> [list |-> EC2_list_instances(ec2, state)]]
    /\ UNCHANGED <<constructed, caller, ec2, s3, rds, lam, provisioned, kept_tags, shares, bucket_shares>>

TagInstance ==
    /\ constructed \in {"EC2Manager", "EC2Manager, S3Manager"}
    /\ \E id \in InstanceIds, tags \in TagInputs :
        \E r \in {tag_instance(ec2, SameTagsObject(shares, id), id, tags)} :
            /\ ec2' = r.reg
            /\ kept_tags' = IF r.ret /\ id \in shares
                             THEN DictUpdate(kept_tags, tags) ELSE kept_tags
            /\ s3' = IF r.ret /\ id \in shares
                      THEN SharedTagsUpdate(s3, bucket_shares, tags) ELSE s3
            /\ call' = [name |-> "ec2.tag_instance", id |-> id, tags |-> tags,
                        ret |-> [bool |-> r.ret]]
    /\ UNCHANGED <<constructed, caller, rds, lam, provisioned, shares, bucket_shares>>

GetInstanceInfo ==
    /\ constructed = "EC2Manager"
    /\ \E id \in InstanceIds :
        call' = [name |-> "ec2.get_instance_info", id |-> id,
                 ret |-> [info |-> EC2_get_instance_info(ec2, id)]]
    /\ UNCHANGED <<constructed, caller, ec2, s3, rds, lam, provisioned, kept_tags, shares, bucket_shares>>

(* S3Manager *)

\* next to an EC2Manager, the caller passes the dict it keeps as tags
CreateBucket ==
    /\ \E p \in IF constructed = "S3Manager" THEN S3Configs
                 ELSE IF constructed = "EC2Manager, S3Manager"
                      THEN {SharedTagsBucket(kept_tags)}
                 ELSE {} :
        \E r \in {create_bucket(s3, p)} :
            /\ s3' = r.reg
            /\ bucket_shares' = IF constructed = "EC2Manager, S3Manager"
                                    /\ ~DictHas(s3, p.bucket_name)
                                 THEN bucket_shares \cup {p.bucket_name} ELSE bucket_shares
            /\ call' = [name |-> "s3.create_bucket", config |-> p, ret |-> [id |-> r.ret]]
    /\ UNCHANGED <<constructed, caller, ec2, rds, lam, provisioned, kept_tags, shares>>

DeleteBucket ==
    /\ constructed = "S3Manager"
    /\ \E b \in BucketNames, force \in BOOLEAN :
        \E r \in {delete_bucket(s3, b, force)} :
            /\ s3' = r.reg
            /\ call' = [name |-> "s3.delete_bucket", id |-> b, force |-> force,
                        ret |-> [bool |-> r.ret]]
    /\ UNCHANGED <<constructed, caller, ec2, rds, lam, provisioned, kept_tags, shares, bucket_shares>>

PutObject ==
    /\ \E c \in (IF constructed = "S3Manager" THEN PutCalls
                 ELSE IF constructed = "AWSAutomation" THEN OrchPutCalls ELSE {}) :
        \E r \in {put_object(s3, c[1], c[2], c[3])} :
            /\ \A i \in 1..Len(r.reg) : r.reg[i].v.size_bytes <= MaxSizeBytes
            /\ s3' = r.reg
            /\ call' = [name |-> "s3.put_object", id |-> c[1], key |-> c[2],
                        config |-> c[3], ret |-> [bool |-> r.ret]]
    /\ UNCHANGED <<constructed, caller, ec2, rds, lam, provisioned, kept_tags, shares, bucket_shares>>

DeleteObject ==
    /\ constructed = "S3Manager"
    /\ \E b \in BucketNames, k \in ObjectKeys :
        \E r \in {delete_object(s3, b, k)} :
            /\ s3' = r.reg
            /\ call' = [name |-> "s3.delete_object", id |-> b, key |-> k,
                        ret |-> [bool |-> r.ret]]
    /\ UNCHANGED <<constructed, caller, ec2, rds, lam, provisioned, kept_tags, shares, bucket_shares>>

\* the caller asks for versioning on the second bucket only
EnableVersioning ==
    /\ constructed = "S3Manager"
    /\ \E b \in {"b2"} :
        \E r \in {enable_versioning(s3, b)} :
            /\ s3' = r.reg
            /\ call' = [name |-> "s3.enable_versioning", id |-> b, ret |-> [bool |-> r.ret]]
    /\ UNCHANGED <<constructed, caller, ec2, rds, lam, provisioned, kept_tags, shares, bucket_shares>>

\* the caller lists the objects of the first bucket only
ListObjects ==
    /\ constructed = "S3Manager"
    /\ \E b \in {"b1"}, prefix \in Prefixes :
        call' = [name |-> "s3.list_objects", id |-> b, prefix |-> prefix,
                 ret |-> [list |-> list_objects(s3, b, prefix)]]
    /\ UNCHANGED <<constructed, caller, ec2, s3, rds, lam, provisioned, kept_tags, shares, bucket_shares>>

GetBucketInfo ==
    /\ constructed = "S3Manager"
    /\ \E b \in BucketNames :
        call' = [name |-> "s3.get_bucket_info", id |-> b,
                 ret |-> [info |-> get_bucket_info(s3, b)]]
    /\ UNCHANGED <<constructed, caller, ec2, s3, rds, lam, provisioned, kept_tags, shares, bucket_shares>>

ListBuckets ==
    /\ constructed = "S3Manager"
    /\ call' = [name |-> "s3.list_buckets", ret |-> [list |-> list_buckets(s3)]]
    /\ UNCHANGED <<constructed, caller, ec2, s3, rds, lam, provisioned, kept_tags, shares, bucket_shares>>

(* RDSManager *)

CreateDb ==
    /\ constructed = "RDSManager"
    /\ \E p \in RDSConfigs :
        \E r \in {RDS_create_instance(rds, p)} :
            /\ rds' = r.reg
            /\ call' = [name |-> "rds.create_instance", config |-> p, ret |-> [id |-> r.ret]]
    /\ UNCHANGED <<constructed, caller, ec2, s3, lam, provisioned, kept_tags, shares, bucket_shares>>

DeleteDb ==
    /\ constructed = "RDSManager"
    /\ \E id \in DbIds :
        \E r \in {delete_instance(rds, id)} :
            /\ rds' = r.reg
            /\ call' = [name |-> "rds.delete_instance", id |-> id, ret |-> [bool |-> r.ret]]
    /\ UNCHANGED <<constructed, caller, ec2, s3, lam, provisioned, kept_tags, shares, bucket_shares>>

StopDb ==
    /\ constructed = "RDSManager"
    /\ \E id \in DbIds :
        \E r \in {RDS_stop_instance(rds, id)} :
            /\ rds' = r.reg
            /\ call' = [name |-> "rds.stop_instance", id |-> id, ret |-> [bool |-> r.ret]]
    /\ UNCHANGED <<constructed, caller, ec2, s3, lam, provisioned, kept_tags, shares, bucket_shares>>

StartDb ==
    /\ constructed = "RDSManager"
    /\ \E id \in DbIds :
        \E r \in {RDS_start_instance(rds, id)} :
            /\ rds' = r.reg
            /\ call' = [name |-> "rds.start_instance", id |-> id, ret |-> [bool |-> r.ret]]
    /\ UNCHANGED <<constructed, caller, ec2, s3, lam, provisioned, kept_tags, shares, bucket_shares>>

CreateSnapshot ==
    /\ constructed = "RDSManager"
    /\ \E id \in DbIds, snap \in SnapshotIds :
        call' = [name |-> "rds.create_snapshot", id |-> id, snapshot_identifier |-> snap,
                 ret |-> [id |-> create_snapshot(rds, id, snap)]]
    /\ UNCHANGED <<constructed, caller, ec2, s3, rds, lam, provisioned, kept_tags, shares, bucket_shares>>

\* the caller modifies the second database only
ModifyDb ==
    /\ constructed = "RDSManager"
    /\ \E id \in {"d2"}, p \in ModifyOptions :
        \E r \in {modify_instance(rds, id, p)} :
            /\ rds' = r.reg
            /\ call' = [name |-> "rds.modify_instance", id |-> id, config |-> p,
                        ret |-> [bool |-> r.ret]]
    /\ UNCHANGED <<constructed, caller, ec2, s3, lam, provisioned, kept_tags, shares, bucket_shares>>

GetDbInfo ==
    /\ constructed = "RDSManager"
    /\ \E id \in DbIds :
        call' = [name |-> "rds.get_instance_info", id |-> id,
                 ret |-> [info |-> RDS_get_instance_info(rds, id)]]
    /\ UNCHANGED <<constructed, caller, ec2, s3, rds, lam, provisioned, kept_tags, shares, bucket_shares>>

ListDbs ==
    /\ constructed = "RDSManager"
    /\ \E engine \in Engines \cup {None} :
        call' = [name |-> "rds.list_instances", engine |-> engine,
                 ret |-> [list |-> RDS_list_instances(rds, engine)]]
    /\ UNCHANGED <<constructed, caller, ec2, s3, rds, lam, provisioned, kept_tags, shares, bucket_shares>>

(* LambdaManager *)

CreateFunction ==
    /\ constructed = "LambdaManager"
    /\ \E p \in LambdaConfigs :
        \E r \in {create_function(lam, p)} :
            /\ lam' = r.reg
            /\ call' = [name |-> "lambda.create_function", config |-> p, ret |-> [id |-> r.ret]]
    /\ UNCHANGED <<constructed, caller, ec2, s3, rds, provisioned, kept_tags, shares, bucket_shares>>

DeleteFunction ==
    /\ constructed = "LambdaManager"
    /\ \E f \in FunctionNames :
        \E r \in {delete_function(lam, f)} :
            /\ lam' = r.reg
            /\ call' = [name |-> "lambda.delete_function", id |-> f, ret |-> [bool |-> r.ret]]
    /\ UNCHANGED <<constructed, caller, ec2, s3, rds, provisioned, kept_tags, shares, bucket_shares>>

InvokeFunction ==
    /\ constructed = "LambdaManager"
    /\ \E f \in FunctionNames, payload \in Payloads :
        \E r \in {invoke_function(lam, f, payload)} :
            /\ \A i \in 1..Len(r.reg) : r.reg[i].v.invocations <= MaxInvocations
            /\ lam' = r.reg
            /\ call' = [name |-> "lambda.invoke_function", id |-> f,
                        payload |-> payload, ret |-> [map |-> r.ret]]
    /\ UNCHANGED <<constructed, caller, ec2, s3, rds, provisioned, kept_tags, shares, bucket_shares>>

\* the caller updates the second function only
UpdateFunctionCode ==
    /\ constructed = "LambdaManager"
    /\ \E f \in {"f2"}, p \in UpdateCodeOptions :
        \E r \in {update_function_code(lam, f, p)} :
            /\ lam' = r.reg
            /\ call' = [name |-> "lambda.update_function_code", id |-> f, config |-> p,
                        ret |-> [bool |-> r.ret]]
    /\ UNCHANGED <<constructed, caller, ec2, s3, rds, provisioned, kept_tags, shares, bucket_shares>>

UpdateFunctionConfiguration ==
    /\ constructed = "LambdaManager"
    /\ \E f \in {"f2"}, p \in UpdateConfigOptions :
        \E r \in {update_function_configuration(lam, f, p)} :
            /\ lam' = r.reg
            /\ call' = [name |-> "lambda.update_function_configuration", id |-> f,
                        config |-> p, ret |-> [bool |-> r.ret]]
    /\ UNCHANGED <<constructed, caller, ec2, s3, rds, provisioned, kept_tags, shares, bucket_shares>>

AddPermission ==
    /\ constructed = "LambdaManager"
    /\ \E f \in FunctionNames :
        call' = [name |-> "lambda.add_permission", id |-> f,
                 ret |-> [bool |-> add_permission(lam, f, "stmt-1", "lambda:InvokeFunction",
                                                  "s3.amazonaws.com")]]
    /\ UNCHANGED <<constructed, caller, ec2, s3, rds, lam, provisioned, kept_tags, shares, bucket_shares>>

GetFunctionInfo ==
    /\ constructed = "LambdaManager"
    /\ \E f \in FunctionNames :
        call' = [name |-> "lambda.get_function_info", id |-> f,
                 ret |-> [info |-> get_function_info(lam, f)]]
    /\ UNCHANGED <<constructed, caller, ec2, s3, rds, lam, provisioned, kept_tags, shares, bucket_shares>>

ListFunctions ==
    /\ constructed = "LambdaManager"
    /\ call' = [name |-> "lambda.list_functions", ret |-> [list |-> list_functions(lam)]]
    /\ UNCHANGED <<constructed, caller, ec2, s3, rds, lam, provisioned, kept_tags, shares, bucket_shares>>

(* AWSAutomation *)

Provision ==
    /\ constructed = "AWSAutomation"
    /\ \E c \in InfraConfigs :
        \E ids \in [1..Len(Arg(c, "ec2", <<>>)) -> InstanceIds] :
            \E r \in {provision_infrastructure(Managers(ec2, s3, rds, lam), c, ids)} :
                /\ ec2' = r.m.ec2
                /\ s3' = r.m.s3
                /\ rds' = r.m.rds
                /\ lam' = r.m.lambda_mgr
                /\ provisioned' = r.ret
                /\ shares' = shares \ Range(r.ret.ec2_instances)
                /\ call' = [name |-> "provision_infrastructure", infrastructure_config |-> c,
                            drawn |-> ids, creates |-> r.calls, ret |-> [ids |-> r.ret]]
    /\ UNCHANGED <<constructed, caller, kept_tags, bucket_shares>>

Destroy ==
    /\ constructed = "AWSAutomation"
    /\ \E x \in DestroyInputs \cup {provisioned} :
        \E r \in {destroy_infrastructure(Managers(ec2, s3, rds, lam), x)} :
            /\ ec2' = r.m.ec2
            /\ s3' = r.m.s3
            /\ rds' = r.m.rds
            /\ lam' = r.m.lambda_mgr
            /\ call' = [name |-> "destroy_infrastructure", resource_ids |-> x,
                        ret |-> [counts |-> r.ret]]
    /\ UNCHANGED <<constructed, caller, provisioned, kept_tags, shares, bucket_shares>>

Status ==
    /\ constructed = "AWSAutomation"
    /\ call' = [name |-> "get_infrastructure_status",
                ret |-> [status |-> get_infrastructure_status(Managers(ec2, s3, rds, lam))]]
    /\ UNCHANGED <<constructed, caller, ec2, s3, rds, lam, provisioned, kept_tags, shares, bucket_shares>>

Next ==
    \/ CreateInstance
    \/ TerminateInstance
    \/ StopInstance
    \/ StartInstance
    \/ ListInstances
    \/ TagInstance
    \/ GetInstanceInfo
    \/ CreateBucket
    \/ DeleteBucket
    \/ PutObject
    \/ DeleteObject
    \/ EnableVersioning
    \/ ListObjects
    \/ GetBucketInfo
    \/ ListBuckets
    \/ CreateDb
    \/ DeleteDb
    \/ StopDb
    \/ StartDb
    \/ CreateSnapshot
    \/ ModifyDb
    \/ GetDbInfo
    \/ ListDbs
    \/ CreateFunction
    \/ DeleteFunction
    \/ InvokeFunction
    \/ UpdateFunctionCode
    \/ UpdateFunctionConfiguration
    \/ AddPermission
    \/ GetFunctionInfo
    \/ ListFunctions
    \/ Provision
    \/ Destroy
    \/ Status

Spec == Init /\ [][Next]_vars

-----------------------------------------------------------------------------
(* Two callers on one manager, without mutual exclusion *)

\* The methods are run statement by statement: every read and every write of
\* the registry or of a record in it is a step of its own, and the steps of
\* the two callers interleave freely.  An augmented assignment is a read
\* followed by a write.

\* the record create_bucket builds from its arguments (s3_manager.py:58-68)
bucket_info(p) == DictGet(create_bucket(Empty, p).reg, p.bucket_name)

\* self.buckets[bucket_name] = bucket_info, but only for a name not yet there
create_bucket_insert_if_absent(buckets, info) ==
    IF DictHas(buckets, info.bucket_name)
    THEN buckets
    ELSE DictSet(buckets, info.bucket_name, info)

\* self.buckets[bucket_name] = bucket_info
create_bucket_insert(buckets, info) == DictSet(buckets, info.bucket_name, info)

\* the record RDSManager.create_instance builds from its arguments
instance_info(p) ==
    DictGet(RDS_create_instance(Empty, p).reg, p.db_instance_identifier)

\* self.instances[db_instance_identifier] = instance_info
RDS_create_instance_insert(instances, info) ==
    DictSet(instances, info.db_instance_identifier, info)

\* the record put_object builds from its arguments
object_info(c) ==
    LET one == put_object(create_bucket(Empty, [bucket_name |-> c[1]]).reg, c[1], c[2], c[3])
    IN  DictGet(one.reg, c[1]).objects[1]

\* [obj for obj in bucket["objects"] if obj["key"] != key]
put_object_filter(bucket, key) == SelectSeq(bucket.objects, LAMBDA obj : obj.key # key)

\* bucket["objects"] = the filtered list
put_object_store(bucket, kept) == [bucket EXCEPT !.objects = kept]

\* bucket["objects"].append(object_info)
put_object_append(bucket, info) == [bucket EXCEPT !.objects = Append(@, info)]

\* the write of bucket["size_bytes"] += size that adds to the size as it is
\* at the time of the write
put_object_add_size_fresh(bucket, size_read, info) ==
    [bucket EXCEPT !.size_bytes = @ + info.size]

\* the write of bucket["size_bytes"] += object_info["size"]: the size read
\* one step earlier plus the object's size
put_object_add_size(bucket, size_read, info) ==
    [bucket EXCEPT !.size_bytes = size_read + info.size]

\* the bucket dict caller t's put_object holds
HeldBucket(t) ==
    IF caller[t].detached THEN caller[t].orphan ELSE DictGet(s3, caller[t].name)

\* caller t's put_object has changed the dict it holds into bucket and moves
\* on to statement pc with the local variables of now
PutStep(t, bucket, now, pc) ==
    /\ s3' = IF caller[t].detached THEN s3 ELSE DictSet(s3, caller[t].name, bucket)
    /\ caller' = [caller EXCEPT ![t] = [now EXCEPT !.pc = pc,
                                            !.orphan = IF caller[t].detached
                                                       THEN bucket ELSE Empty]]

\* caller t starts a call of method op on identifier name
Called(t, op, name) ==
    [IdleCaller EXCEPT !.left = caller[t].left - 1, !.op = op, !.name = name]

PutPcs ==
    {"put_object:filter", "put_object:store", "put_object:append",
     "put_object:read_size", "put_object:add_size"}

\* create_bucket, the test "if bucket_name in self.buckets" and what follows
\* up to the insertion
CheckBucket ==
    /\ constructed = "S3Manager"
    /\ \E t \in Callers :
        /\ caller[t].pc = "idle"
        /\ caller[t].left > 0
        /\ \E info \in {bucket_info(RaceBucketConfigs[t])} :
            caller' = [caller EXCEPT ![t] =
                          IF DictHas(s3, info.bucket_name)
                          THEN [Called(t, "s3.create_bucket", info.bucket_name)
                                   EXCEPT !.ret = [id |-> info.bucket_name]]
                          ELSE [Called(t, "s3.create_bucket", info.bucket_name)
                                   EXCEPT !.pc = "create_bucket:insert",
                                          !.info = info, !.passed = TRUE]]
    /\ UNCHANGED <<constructed, ec2, s3, rds, lam, provisioned, kept_tags, shares, bucket_shares, call>>

\* create_bucket, the insertion and the return.  A put_object of the other
\* caller that holds the dict stored under the name so far keeps that dict.
InsertBucket ==
    /\ constructed = "S3Manager"
    /\ \E t \in Callers :
        /\ caller[t].pc = "create_bucket:insert"
        /\ s3' = create_bucket_insert(s3, caller[t].info)
        /\ caller' = [u \in Callers |->
                         IF u = t
                         THEN [caller[t] EXCEPT !.pc = "idle",
                                                !.ret = [id |-> caller[t].name]]
                         ELSE IF /\ caller[u].pc \in PutPcs
                                 /\ caller[u].name = caller[t].name
                                 /\ ~caller[u].detached
                              THEN [caller[u] EXCEPT !.detached = TRUE,
                                                     !.orphan = DictGet(s3, caller[t].name)]
                              ELSE caller[u]]
    /\ UNCHANGED <<constructed, ec2, rds, lam, provisioned, kept_tags, shares, bucket_shares, call>>

\* put_object, the test "if bucket_name not in self.buckets", the building
\* of object_info and the look-up of the bucket dict
CheckPut ==
    /\ constructed = "S3Manager"
    /\ \E t \in Callers :
        /\ caller[t].pc = "idle"
        /\ caller[t].left > 0
        /\ \E c \in {RacePutCalls[t]} :
            caller' = [caller EXCEPT ![t] =
                          IF ~DictHas(s3, c[1])
                          THEN [Called(t, "s3.put_object", c[1])
                                   EXCEPT !.ret = [bool |-> FALSE]]
                          ELSE [Called(t, "s3.put_object", c[1])
                                   EXCEPT !.pc = "put_object:filter",
                                          !.info = object_info(c), !.passed = TRUE]]
    /\ UNCHANGED <<constructed, ec2, s3, rds, lam, provisioned, kept_tags, shares, bucket_shares, call>>

\* put_object, the list comprehension over bucket["objects"]
FilterObjects ==
    /\ constructed = "S3Manager"
    /\ \E t \in Callers :
        /\ caller[t].pc = "put_object:filter"
        /\ caller' = [caller EXCEPT ![t].pc = "put_object:store",
                                    ![t].kept = put_object_filter(HeldBucket(t),
                                                                  caller[t].info.key)]
    /\ UNCHANGED <<constructed, ec2, s3, rds, lam, provisioned, kept_tags, shares, bucket_shares, call>>

\* put_object, the assignment of the filtered list to bucket["objects"]
StoreObjects ==
    /\ constructed = "S3Manager"
    /\ \E t \in Callers :
        /\ caller[t].pc = "put_object:store"
        /\ PutStep(t, put_object_store(HeldBucket(t), caller[t].kept), caller[t],
                   "put_object:append")
    /\ UNCHANGED <<constructed, ec2, rds, lam, provisioned, kept_tags, shares, bucket_shares, call>>

\* put_object, the append to bucket["objects"]
AppendObject ==
    /\ constructed = "S3Manager"
    /\ \E t \in Callers :
        /\ caller[t].pc = "put_object:append"
        /\ PutStep(t, put_object_append(HeldBucket(t), caller[t].info), caller[t],
                   "put_object:read_size")
    /\ UNCHANGED <<constructed, ec2, rds, lam, provisioned, kept_tags, shares, bucket_shares, call>>

\* put_object, the read of bucket["size_bytes"] in the augmented assignment
ReadSize ==
    /\ constructed = "S3Manager"
    /\ \E t \in Callers :
        /\ caller[t].pc = "put_object:read_size"
        /\ caller' = [caller EXCEPT ![t].pc = "put_object:add_size",
                                    ![t].size_read = HeldBucket(t).size_bytes]
    /\ UNCHANGED <<constructed, ec2, s3, rds, lam, provisioned, kept_tags, shares, bucket_shares, call>>

\* put_object, the write of bucket["size_bytes"] and the return
AddSize ==
    /\ constructed = "S3Manager"
    /\ \E t \in Callers :
        /\ caller[t].pc = "put_object:add_size"
        /\ PutStep(t, put_object_add_size(HeldBucket(t), caller[t].size_read,
                                          caller[t].info),
                   [caller[t] EXCEPT !.ret = [bool |-> TRUE]], "idle")
    /\ UNCHANGED <<constructed, ec2, rds, lam, provisioned, kept_tags, shares, bucket_shares, call>>

\* RDSManager.create_instance, the test "if db_instance_identifier in
\* self.instances" and what follows up to the insertion
CheckDb ==
    /\ constructed = "RDSManager"
    /\ \E t \in Callers :
        /\ caller[t].pc = "idle"
        /\ caller[t].left > 0
        /\ \E info \in {instance_info(RaceDbConfigs[t])} :
            caller' = [caller EXCEPT ![t] =
                          IF DictHas(rds, info.db_instance_identifier)
                          THEN [Called(t, "rds.create_instance", info.db_instance_identifier)
                                   EXCEPT !.ret = [id |-> info.db_instance_identifier]]
                          ELSE [Called(t, "rds.create_instance", info.db_instance_identifier)
                                   EXCEPT !.pc = "create_instance:insert",
                                          !.info = info, !.passed = TRUE]]
    /\ UNCHANGED <<constructed, ec2, s3, rds, lam, provisioned, kept_tags, shares, bucket_shares, call>>

\* RDSManager.create_instance, the insertion and the return
InsertDb ==
    /\ constructed = "RDSManager"
    /\ \E t \in Callers :
        /\ caller[t].pc = "create_instance:insert"
        /\ rds' = RDS_create_instance_insert(rds, caller[t].info)
        /\ caller' = [caller EXCEPT ![t].pc = "idle", ![t].ret = [id |-> caller[t].name]]
    /\ UNCHANGED <<constructed, ec2, s3, lam, provisioned, kept_tags, shares, bucket_shares, call>>

RaceInit == Init /\ constructed \in {"S3Manager", "RDSManager"}

RaceNext ==
    \/ CheckBucket
    \/ InsertBucket
    \/ CheckPut
    \/ FilterObjects
    \/ StoreObjects
    \/ AppendObject
    \/ ReadSize
    \/ AddSize
    \/ CheckDb
    \/ InsertDb

RaceSpec == RaceInit /\ [][RaceNext]_vars

-----------------------------------------------------------------------------
(* Properties *)

RECURSIVE SumSizes(_)
SumSizes(objects) ==
    IF objects = <<>> THEN 0 ELSE Head(objects).size + SumSizes(Tail(objects))

\* C1: in every bucket, size_bytes equals the sum of the sizes of the objects
\* currently in the bucket.  Violated: put_object on an existing key drops the
\* old object without subtracting its size.
C1_SizeIsSumOfObjects ==
    \A i \in 1..Len(s3) : s3[i].v.size_bytes = SumSizes(s3[i].v.objects)

\* number of registry entries under key k
Records(d, k) == Cardinality({i \in 1..Len(d) : d[i].k = k})

\* C2: create of the storage, database and function managers, called with an
\* identifier that is in the registry, returns the identifier and leaves the
\* whole registry, that record included, as it was, with one record for it.
C2_DuplicateCreateIsNoOp ==
    [][/\ (call'.name = "s3.create_bucket" /\ DictHas(s3, call'.config.bucket_name))
          => /\ call'.ret.id = call'.config.bucket_name
             /\ s3' = s3
             /\ Records(s3', call'.config.bucket_name) = 1
       /\ (call'.name = "rds.create_instance"
             /\ DictHas(rds, call'.config.db_instance_identifier))
          => /\ call'.ret.id = call'.config.db_instance_identifier
             /\ rds' = rds
             /\ Records(rds', call'.config.db_instance_identifier) = 1
       /\ (call'.name = "lambda.create_function"
             /\ DictHas(lam, call'.config.function_name))
          => /\ call'.ret.id = call'.config.function_name
             /\ lam' = lam
             /\ Records(lam', call'.config.function_name) = 1]_vars

\* a second create_bucket with other attributes found a bucket that holds an
\* object, and the bucket still has the first call's attributes and the object
C2_Witness ==
    /\ call.name = "s3.create_bucket"
    /\ call.config = [bucket_name |-> "b1"] @@ BucketRich
    /\ DictHas(s3, "b1")
    /\ DictGet(s3, "b1").region = "us-east-1"
    /\ DictGet(s3, "b1").objects # <<>>
    /\ DictGet(s3, "b1").size_bytes > 0

\* C4: EC2 stop_instance returns true exactly when the instance exists in state
\* running and then sets it to stopped; start_instance returns true exactly
\* when the instance exists in state stopped and then sets it to running;
\* otherwise the call returns false and the registry is unchanged.
C4_EC2StopStart ==
    [][/\ call'.name = "ec2.stop_instance"
          => LET ok == DictHas(ec2, call'.id) /\ DictGet(ec2, call'.id).state = "running"
             IN  /\ call'.ret.bool <=> ok
                 /\ ok => DictGet(ec2', call'.id).state = "stopped"
                 /\ ~ok => ec2' = ec2
       /\ call'.name = "ec2.start_instance"
          => LET ok == DictHas(ec2, call'.id) /\ DictGet(ec2, call'.id).state = "stopped"
             IN  /\ call'.ret.bool <=> ok
                 /\ ok => DictGet(ec2', call'.id).state = "running"
                 /\ ~ok => ec2' = ec2]_vars

\* stop_instance was refused on a terminated instance while another one runs
C4_Witness ==
    /\ call.name = "ec2.stop_instance"
    /\ ~call.ret.bool
    /\ DictHas(ec2, call.id)
    /\ DictGet(ec2, call.id).state = "terminated"
    /\ \E i \in 1..Len(ec2) : ec2[i].v.state = "running"

\* C5: RDS stop_instance returns true exactly when the instance exists with
\* status available and then sets it to stopped; start_instance returns true
\* exactly when the instance exists with status stopped and then sets it to
\* available; otherwise the call returns false and the registry is unchanged.
C5_RDSStopStart ==
    [][/\ call'.name = "rds.stop_instance"
          => LET ok == DictHas(rds, call'.id) /\ DictGet(rds, call'.id).status = "available"
             IN  /\ call'.ret.bool <=> ok
                 /\ ok => DictGet(rds', call'.id).status = "stopped"
                 /\ ~ok => rds' = rds
       /\ call'.name = "rds.start_instance"
          => LET ok == DictHas(rds, call'.id) /\ DictGet(rds, call'.id).status = "stopped"
             IN  /\ call'.ret.bool <=> ok
                 /\ ok => DictGet(rds', call'.id).status = "available"
                 /\ ~ok => rds' = rds]_vars

\* start_instance succeeded on a stopped database instance
C5_Witness ==
    /\ call.name = "rds.start_instance"
    /\ call.ret.bool
    /\ DictGet(rds, call.id).status = "available"
    /\ Len(rds) = 2

\* C6: delete_bucket on a bucket that holds an object returns false and leaves
\* the registry, the bucket included, unchanged when force is false; with force
\* true it returns true and the bucket is gone from the registry.
C6_DeleteNonEmptyBucket ==
    [][(/\ call'.name = "s3.delete_bucket"
        /\ DictHas(s3, call'.id)
        /\ DictGet(s3, call'.id).objects # <<>>)
       => IF call'.force
          THEN call'.ret.bool /\ ~DictHas(s3', call'.id)
          ELSE ~call'.ret.bool /\ s3' = s3]_vars

\* an unforced delete_bucket was refused on a bucket that holds an object
C6_Witness ==
    /\ call.name = "s3.delete_bucket"
    /\ ~call.force
    /\ ~call.ret.bool
    /\ DictHas(s3, call.id)
    /\ DictGet(s3, call.id).objects # <<>>

\* C7: for each kind, provision returns as many identifiers as the
\* configuration lists parameter maps under that kind (none when the key is
\* absent), duplicates included.
C7_ProvisionLengths ==
    call.name = "provision_infrastructure"
    => /\ Len(call.ret.ids.ec2_instances) = Len(Arg(call.infrastructure_config, "ec2", <<>>))
       /\ Len(call.ret.ids.s3_buckets) = Len(Arg(call.infrastructure_config, "s3", <<>>))
       /\ Len(call.ret.ids.rds_instances) = Len(Arg(call.infrastructure_config, "rds", <<>>))
       /\ Len(call.ret.ids.lambda_functions) = Len(Arg(call.infrastructure_config, "lambda", <<>>))

\* provision returned the same bucket name twice
C7_Witness ==
    /\ call.name = "provision_infrastructure"
    /\ Len(call.ret.ids.s3_buckets) = 2
    /\ call.ret.ids.s3_buckets[1] = call.ret.ids.s3_buckets[2]
    /\ Len(s3) = 1

\* a list names no identifier twice
NoDuplicates(list) == Cardinality(Range(list)) = Len(list)

\* the counts returned by destroy equal the lengths of the lists it was given
CountsAreLengths(counts, ids) ==
    /\ counts.ec2_terminated = Len(ids.ec2_instances)
    /\ counts.s3_deleted = Len(ids.s3_buckets)
    /\ counts.rds_deleted = Len(ids.rds_instances)
    /\ counts.lambda_deleted = Len(ids.lambda_functions)

\* C3 as stated: destroy on the exact result of a prior provision returns
\* counts equal to the list lengths and leaves all four registries empty.
\* Violated: terminate_instance keeps the record, so ec2 is never emptied.
C3_DestroyEmptiesAllRegistries ==
    [][(/\ call'.name = "destroy_infrastructure"
        /\ provisioned # Empty
        /\ call'.resource_ids = provisioned)
       => /\ CountsAreLengths(call'.ret.counts, provisioned)
          /\ ec2' = <<>>
          /\ s3' = <<>>
          /\ rds' = <<>>
          /\ lam' = <<>>]_vars

\* C3 amended: destroy called directly after provision on its exact result,
\* when the result names no bucket, database or function twice and no named
\* bucket holds an object, returns counts equal to the list lengths;
\* afterwards none of the named buckets, databases and functions is in its
\* registry, and every named compute instance is still in the compute
\* registry, in state terminated.
C3_DestroyAfterProvision ==
    [][(/\ call.name = "provision_infrastructure"
        /\ call'.name = "destroy_infrastructure"
        /\ call'.resource_ids = call.ret.ids
        /\ NoDuplicates(call.ret.ids.s3_buckets)
        /\ NoDuplicates(call.ret.ids.rds_instances)
        /\ NoDuplicates(call.ret.ids.lambda_functions)
        /\ \A b \in Range(call.ret.ids.s3_buckets) : DictGet(s3, b).objects = <<>>)
       => /\ CountsAreLengths(call'.ret.counts, call.ret.ids)
          /\ \A b \in Range(call.ret.ids.s3_buckets) : ~DictHas(s3', b)
          /\ \A d \in Range(call.ret.ids.rds_instances) : ~DictHas(rds', d)
          /\ \A f \in Range(call.ret.ids.lambda_functions) : ~DictHas(lam', f)
          /\ \A i \in Range(call.ret.ids.ec2_instances) :
                DictHas(ec2', i) /\ DictGet(ec2', i).state = "terminated"]_vars

\* destroy of a provision result with two instances, a bucket, a database and
\* a function removed all of them but the instances, which are terminated
C3_Witness ==
    /\ call.name = "destroy_infrastructure"
    /\ call.resource_ids = provisioned
    /\ call.ret.counts = [ec2_terminated |-> 2, s3_deleted |-> 1,
                          rds_deleted |-> 1, lambda_deleted |-> 1]
    /\ Len(ec2) = 2
    /\ \A i \in 1..Len(ec2) : ec2[i].v.state = "terminated"
    /\ s3 = <<>> /\ rds = <<>> /\ lam = <<>>

\* C8 as stated: after provision on a freshly constructed orchestrator each
\* registry holds as many records as the list returned for its kind is long.
\* Violated: a configuration may name the same identifier twice.
C8_RegistrySizeIsListLength ==
    [][(call.name = "__init__" /\ call'.name = "provision_infrastructure")
       => /\ Len(ec2') = Len(call'.ret.ids.ec2_instances)
          /\ Len(s3') = Len(call'.ret.ids.s3_buckets)
          /\ Len(rds') = Len(call'.ret.ids.rds_instances)
          /\ Len(lam') = Len(call'.ret.ids.lambda_functions)]_vars

\* C8 amended: after provision on a freshly constructed orchestrator each
\* registry holds as many records as the list returned for its kind has
\* distinct identifiers.
C8_RegistrySizeIsDistinctIds ==
    [][(call.name = "__init__" /\ call'.name = "provision_infrastructure")
       => /\ Len(ec2') = Cardinality(Range(call'.ret.ids.ec2_instances))
          /\ Len(s3') = Cardinality(Range(call'.ret.ids.s3_buckets))
          /\ Len(rds') = Cardinality(Range(call'.ret.ids.rds_instances))
          /\ Len(lam') = Cardinality(Range(call'.ret.ids.lambda_functions))]_vars

\* provision returned a database identifier and a function name twice each,
\* and the registries hold one database and one function
C8_Witness ==
    /\ call.name = "provision_infrastructure"
    /\ Len(call.ret.ids.rds_instances) = 2
    /\ Len(rds) = 1
    /\ Len(call.ret.ids.lambda_functions) = 2
    /\ Len(lam) = 1
    /\ ec2 = <<>>

\* C9: every EC2 create_instance adds a record under an identifier that was
\* not in the registry, in state running.  Violated: the identifier is drawn
\* at random without a look at the registry, and a repeated draw replaces
\* the record of the earlier instance.
C9_CreateAddsNewRecord ==
    [][call'.name = "ec2.create_instance"
       => /\ ~DictHas(ec2, call'.ret.id)
          /\ Len(ec2') = Len(ec2) + 1
          /\ DictGet(ec2', call'.ret.id).state = "running"]_vars

\* every supplied keyword is a field of the record with the supplied value,
\* and every omitted keyword is a field with the signature default
RoundTrip(rec, p, defaults) ==
    /\ \A k \in DOMAIN p : k \in DOMAIN rec /\ rec[k] = p[k]
    /\ \A k \in DOMAIN defaults \ DOMAIN p : k \in DOMAIN rec /\ rec[k] = defaults[k]

\* C10 as stated: after create(params) of any kind, get on the returned
\* identifier returns a record that holds every supplied parameter with its
\* value and every omitted one with its default.  Violated: a duplicate
\* create keeps the old record, master_password and code are not stored, and
\* an omitted or empty db_name becomes the instance identifier.
C10_RoundTrip ==
    [][/\ call'.name = "ec2.create_instance"
          => RoundTrip(EC2_get_instance_info(ec2', call'.ret.id), call'.config,
                       EC2_create_instance_defaults)
       /\ call'.name = "s3.create_bucket"
          => RoundTrip(get_bucket_info(s3', call'.ret.id), call'.config,
                       create_bucket_defaults)
       /\ call'.name = "rds.create_instance"
          => RoundTrip(RDS_get_instance_info(rds', call'.ret.id), call'.config,
                       RDS_create_instance_defaults)
       /\ call'.name = "lambda.create_function"
          => RoundTrip(get_function_info(lam', call'.ret.id), call'.config,
                       create_function_defaults)]_vars

\* RoundTrip for the keywords outside the set skip
RoundTripBut(rec, p, defaults, skip) ==
    /\ \A k \in DOMAIN p \ skip : k \in DOMAIN rec /\ rec[k] = p[k]
    /\ \A k \in (DOMAIN defaults \ DOMAIN p) \ skip :
          k \in DOMAIN rec /\ rec[k] = defaults[k]

\* C10 amended: when create inserts a record (EC2 always; the other kinds
\* when the identifier was not in the registry), get on the returned
\* identifier returns a record that holds every supplied parameter with its
\* value and every omitted one with its default, except that master_password
\* (database) and code (function) are no fields of the record, code_size is
\* the length of a supplied non-empty code and 1024 otherwise, and db_name,
\* when omitted or empty, is the instance identifier.
C10_RoundTripOfNewRecord ==
    [][/\ call'.name = "ec2.create_instance"
          => RoundTrip(EC2_get_instance_info(ec2', call'.ret.id), call'.config,
                       EC2_create_instance_defaults)
       /\ (call'.name = "s3.create_bucket" /\ ~DictHas(s3, call'.config.bucket_name))
          => RoundTrip(get_bucket_info(s3', call'.ret.id), call'.config,
                       create_bucket_defaults)
       /\ (call'.name = "rds.create_instance"
             /\ ~DictHas(rds, call'.config.db_instance_identifier))
          => LET rec == RDS_get_instance_info(rds', call'.ret.id)
                 p   == call'.config
             IN  /\ RoundTripBut(rec, p, RDS_create_instance_defaults,
                                 {"master_password", "db_name"})
                 /\ "master_password" \notin DOMAIN rec
                 /\ rec.db_name = IF "db_name" \in DOMAIN p /\ p.db_name # ""
                                  THEN p.db_name ELSE p.db_instance_identifier
       /\ (call'.name = "lambda.create_function"
             /\ ~DictHas(lam, call'.config.function_name))
          => LET rec == get_function_info(lam', call'.ret.id)
                 p   == call'.config
             IN  /\ RoundTripBut(rec, p, create_function_defaults, {"code"})
                 /\ "code" \notin DOMAIN rec
                 /\ rec.code_size = IF "code" \in DOMAIN p /\ p.code # ""
                                    THEN Len(p.code) ELSE 1024]_vars

\* a database instance was created with every keyword supplied, a retention
\* of 0 days among them, and its record holds the supplied values
C10_Witness ==
    /\ call.name = "rds.create_instance"
    /\ call.config = [db_instance_identifier |-> "d1"] @@ RDSRich
    /\ DictHas(rds, "d1")
    /\ DictGet(rds, "d1").engine = "postgres"
    /\ DictGet(rds, "d1").backup_retention_period = 0
    /\ DictGet(rds, "d1").db_name = "appdb"

\* C11: list_instances(state = s), for s one of running, stopped and
\* terminated, returns exactly the records of the registry whose state is s:
\* each of them once, and nothing else.
C11_ListByState ==
    (call.name = "ec2.list_instances" /\ call.state \in InstanceStates)
    => LET list == call.ret.list
       IN  /\ \A j \in 1..Len(list) :
                /\ list[j].state = call.state
                /\ DictHas(ec2, list[j].instance_id)
                /\ DictGet(ec2, list[j].instance_id) = list[j]
           /\ \A i \in 1..Len(ec2) :
                ec2[i].v.state = call.state
                => Cardinality({j \in 1..Len(list) : list[j] = ec2[i].v}) = 1

\* of two instances one is stopped, and list_instances("stopped") returned
\* that one alone
C11_Witness ==
    /\ call.name = "ec2.list_instances"
    /\ call.state = "stopped"
    /\ Len(ec2) = 2
    /\ Len(call.ret.list) = 1
    /\ \E i \in 1..2 : ec2[i].v.state = "running"

\* C12: terminate_instance on an identifier in the compute registry returns
\* true and sets the state to terminated whatever it was; the record stays in
\* the registry, otherwise unchanged, and get_instance_info and list_instances
\* (unfiltered and filtered by terminated) return it; on an unknown
\* identifier the call returns false and the registry is unchanged.
C12_Terminate ==
    [][call'.name = "ec2.terminate_instance"
       => IF DictHas(ec2, call'.id)
          THEN LET rec == [DictGet(ec2, call'.id) EXCEPT !.state = "terminated"]
               IN  /\ call'.ret.bool
                   /\ Len(ec2') = Len(ec2)
                   /\ EC2_get_instance_info(ec2', call'.id) = rec
                   /\ rec \in Range(EC2_list_instances(ec2', None))
                   /\ rec \in Range(EC2_list_instances(ec2', "terminated"))
          ELSE ~call'.ret.bool /\ ec2' = ec2]_vars

\* terminate_instance returned true on an instance that was terminated before,
\* while the other instance of the registry is stopped
C12_Witness ==
    /\ call.name = "ec2.terminate_instance"
    /\ call.ret.bool
    /\ Len(ec2) = 2
    /\ DictGet(ec2, call.id).state = "terminated"
    /\ \E i \in 1..2 : ec2[i].v.state = "stopped"

\* C13: delete of the database manager, of the function manager, and of the
\* storage manager on a bucket without objects, called with an identifier in
\* the registry, returns true and removes that record and no other: get
\* returns None for it and list has no record of it; called with an identifier
\* that is not in the registry it returns false and the registry is unchanged.
C13_Delete ==
    [][/\ call'.name = "rds.delete_instance"
          => IF DictHas(rds, call'.id)
             THEN /\ call'.ret.bool
                  /\ rds' = DictDel(rds, call'.id)
                  /\ RDS_get_instance_info(rds', call'.id) = Null
                  /\ \A info \in Range(RDS_list_instances(rds', None)) :
                        info.db_instance_identifier # call'.id
             ELSE ~call'.ret.bool /\ rds' = rds
       /\ call'.name = "lambda.delete_function"
          => IF DictHas(lam, call'.id)
             THEN /\ call'.ret.bool
                  /\ lam' = DictDel(lam, call'.id)
                  /\ get_function_info(lam', call'.id) = Null
                  /\ \A info \in Range(list_functions(lam')) :
                        info.function_name # call'.id
             ELSE ~call'.ret.bool /\ lam' = lam
       /\ call'.name = "s3.delete_bucket"
          => IF ~DictHas(s3, call'.id)
             THEN ~call'.ret.bool /\ s3' = s3
             ELSE DictGet(s3, call'.id).objects = <<>>
                  => /\ call'.ret.bool
                     /\ s3' = DictDel(s3, call'.id)
                     /\ get_bucket_info(s3', call'.id) = Null
                     /\ \A info \in Range(list_buckets(s3')) :
                           info.bucket_name # call'.id]_vars

\* delete_function removed the first of two functions; the second is left
C13_Witness ==
    /\ call.name = "lambda.delete_function"
    /\ call.ret.bool
    /\ call.id = "f1"
    /\ Len(lam) = 1
    /\ DictHas(lam, "f2")

\* the number of positions of a list that hold a key of the registry d
Known(d, list) == Cardinality({i \in 1..Len(list) : DictHas(d, list[i])})

\* C14: destroy does not count an identifier that its manager does not know,
\* so each count is at most the number of listed identifiers the manager
\* knew, and at most the length of the list; every listed identifier the
\* manager knew is deleted whatever stands before or after it in the lists: a
\* compute instance is terminated, a database and a function are gone, and so
\* is a bucket that held no object.
C14_DestroySkipsUnknown ==
    [][call'.name = "destroy_infrastructure"
       => LET e == Arg(call'.resource_ids, "ec2_instances", <<>>)
              s == Arg(call'.resource_ids, "s3_buckets", <<>>)
              r == Arg(call'.resource_ids, "rds_instances", <<>>)
              l == Arg(call'.resource_ids, "lambda_functions", <<>>)
              c == call'.ret.counts
          IN  /\ DOMAIN c = {"ec2_terminated", "s3_deleted", "rds_deleted", "lambda_deleted"}
              /\ c.ec2_terminated <= Known(ec2, e) /\ Known(ec2, e) <= Len(e)
              /\ c.s3_deleted <= Known(s3, s) /\ Known(s3, s) <= Len(s)
              /\ c.rds_deleted <= Known(rds, r) /\ Known(rds, r) <= Len(r)
              /\ c.lambda_deleted <= Known(lam, l) /\ Known(lam, l) <= Len(l)
              /\ \A i \in Range(e) :
                    DictHas(ec2, i) => DictGet(ec2', i).state = "terminated"
              /\ \A b \in Range(s) :
                    (DictHas(s3, b) /\ DictGet(s3, b).objects = <<>>) => ~DictHas(s3', b)
              /\ \A d \in Range(r) : ~DictHas(rds', d)
              /\ \A f \in Range(l) : ~DictHas(lam', f)]_vars

\* destroy was given an unknown database before a known one and the same
\* function twice, unknown the second time: both were deleted and counted once
C14_Witness ==
    /\ call.name = "destroy_infrastructure"
    /\ call.resource_ids = [rds_instances |-> <<"d2", "d1">>,
                            lambda_functions |-> <<"f1", "f1">>]
    /\ call.ret.counts.rds_deleted = 1
    /\ call.ret.counts.lambda_deleted = 1
    /\ rds = <<>>
    /\ lam = <<>>
    /\ Len(ec2) = 2

\* the create calls of one manager for a list of parameter maps, in list order
CreatesOf(manager, configs) ==
    [i \in 1..Len(configs) |-> [manager |-> manager, config |-> configs[i]]]

\* position i is the first of the list to hold its identifier
FirstOf(list, i) == \A j \in 1..(i - 1) : list[j] # list[i]

\* position i is the last of the list to hold its identifier
LastOf(list, i) == \A j \in (i + 1)..Len(list) : list[j] # list[i]

\* C15: provision makes its create calls kind after kind in the order compute,
\* storage, database, function, and within a kind in the order of the input;
\* the i-th identifier of a kind's output list is the one the create call for
\* the i-th entry returned: the i-th identifier drawn for compute, and the
\* i-th entry's own identifier for storage, database and function.  The
\* records show which call came first: an identifier new to its registry has
\* the attributes of the first entry that names it, and a compute identifier
\* those of the last entry that drew it.
C15_ProvisionOrder ==
    [][call'.name = "provision_infrastructure"
       => LET c   == call'.infrastructure_config
              E   == Arg(c, "ec2", <<>>)
              S   == Arg(c, "s3", <<>>)
              R   == Arg(c, "rds", <<>>)
              L   == Arg(c, "lambda", <<>>)
              ids == call'.ret.ids
          IN  /\ call'.creates = CreatesOf("ec2", E) \o CreatesOf("s3", S)
                                    \o CreatesOf("rds", R) \o CreatesOf("lambda", L)
              /\ ids.ec2_instances = call'.drawn
              /\ ids.s3_buckets = [i \in 1..Len(S) |-> S[i].bucket_name]
              /\ ids.rds_instances = [i \in 1..Len(R) |-> R[i].db_instance_identifier]
              /\ ids.lambda_functions = [i \in 1..Len(L) |-> L[i].function_name]
              /\ \A i \in 1..Len(E) :
                    LastOf(ids.ec2_instances, i)
                    => RoundTrip(DictGet(ec2', ids.ec2_instances[i]), E[i],
                                 EC2_create_instance_defaults)
              /\ \A i \in 1..Len(S) :
                    (FirstOf(ids.s3_buckets, i) /\ ~DictHas(s3, ids.s3_buckets[i]))
                    => RoundTrip(DictGet(s3', ids.s3_buckets[i]), S[i],
                                 create_bucket_defaults)
              /\ \A i \in 1..Len(R) :
                    (FirstOf(ids.rds_instances, i) /\ ~DictHas(rds, ids.rds_instances[i]))
                    => RoundTripBut(DictGet(rds', ids.rds_instances[i]), R[i],
                                    RDS_create_instance_defaults,
                                    {"master_password", "db_name"})
              /\ \A i \in 1..Len(L) :
                    (FirstOf(ids.lambda_functions, i)
                        /\ ~DictHas(lam, ids.lambda_functions[i]))
                    => RoundTripBut(DictGet(lam', ids.lambda_functions[i]), L[i],
                                    create_function_defaults, {"code"})]_vars

\* provision of two compute entries and of one entry of each other kind made
\* five create calls, the compute ones first and the function one last, and
\* the two instances stand in the registry in the order of their entries
C15_Witness ==
    /\ call.name = "provision_infrastructure"
    /\ Len(call.creates) = 5
    /\ call.creates[1].manager = "ec2"
    /\ call.creates[5].manager = "lambda"
    /\ call.ret.ids.ec2_instances = <<"i-2", "i-1">>
    /\ ec2[1].k = "i-2"
    /\ ec2[1].v.instance_type = "t2.micro"
    /\ ec2[2].v.instance_type = "t2.small"

\* C16: the result of provision has the four keys ec2_instances, s3_buckets,
\* rds_instances and lambda_functions; a kind whose key is absent from the
\* configuration gets the empty list and its registry stays as it was, so
\* provision of the empty configuration returns four empty lists and changes
\* no registry.
C16_ProvisionAbsentKinds ==
    [][call'.name = "provision_infrastructure"
       => LET c   == call'.infrastructure_config
              ids == call'.ret.ids
          IN  /\ DOMAIN ids = {"ec2_instances", "s3_buckets", "rds_instances",
                               "lambda_functions"}
              /\ "ec2" \notin DOMAIN c => (ids.ec2_instances = <<>> /\ ec2' = ec2)
              /\ "s3" \notin DOMAIN c => (ids.s3_buckets = <<>> /\ s3' = s3)
              /\ "rds" \notin DOMAIN c => (ids.rds_instances = <<>> /\ rds' = rds)
              /\ "lambda" \notin DOMAIN c => (ids.lambda_functions = <<>> /\ lam' = lam)
              /\ DOMAIN c = {}
                 => /\ ids = [ec2_instances |-> <<>>, s3_buckets |-> <<>>,
                              rds_instances |-> <<>>, lambda_functions |-> <<>>]
                    /\ <<ec2', s3', rds', lam'>> = <<ec2, s3, rds, lam>>]_vars

\* provision of the empty configuration on an orchestrator that manages two
\* instances, a bucket, a database and a function returned four empty lists
C16_Witness ==
    /\ call.name = "provision_infrastructure"
    /\ DOMAIN call.infrastructure_config = {}
    /\ call.ret.ids.ec2_instances = <<>>
    /\ call.ret.ids.lambda_functions = <<>>
    /\ Len(ec2) = 2
    /\ Len(s3) = 1
    /\ Len(rds) = 1
    /\ Len(lam) = 1

\* all four registries are after the step what they were before it
RegistriesUnchanged == <<ec2', s3', rds', lam'>> = <<ec2, s3, rds, lam>>

\* C17: an operation called with an identifier or bucket name that is not in
\* the registry of its manager returns its failure value and leaves every
\* registry unchanged: false for stop, start, terminate and tag of compute,
\* for delete_bucket, put_object, delete_object and enable_versioning of
\* storage, for delete, stop, start and modify of database, for delete,
\* update_function_code, update_function_configuration and add_permission of
\* function; None for create_snapshot; the empty list for list_objects; and
\* for invoke_function a map with the key error and without status_code.
C17_UnknownIdentifier ==
    [][/\ (/\ call'.name \in {"ec2.stop_instance", "ec2.start_instance",
                              "ec2.terminate_instance", "ec2.tag_instance"}
           /\ ~DictHas(ec2, call'.id))
          => (~call'.ret.bool /\ RegistriesUnchanged)
       /\ (/\ call'.name \in {"s3.delete_bucket", "s3.put_object", "s3.delete_object",
                              "s3.enable_versioning"}
           /\ ~DictHas(s3, call'.id))
          => (~call'.ret.bool /\ RegistriesUnchanged)
       /\ (/\ call'.name \in {"rds.delete_instance", "rds.stop_instance",
                              "rds.start_instance", "rds.modify_instance"}
           /\ ~DictHas(rds, call'.id))
          => (~call'.ret.bool /\ RegistriesUnchanged)
       /\ (/\ call'.name \in {"lambda.delete_function", "lambda.update_function_code",
                              "lambda.update_function_configuration",
                              "lambda.add_permission"}
           /\ ~DictHas(lam, call'.id))
          => (~call'.ret.bool /\ RegistriesUnchanged)
       /\ (call'.name = "rds.create_snapshot" /\ ~DictHas(rds, call'.id))
          => (call'.ret.id = None /\ RegistriesUnchanged)
       /\ (call'.name = "s3.list_objects" /\ ~DictHas(s3, call'.id))
          => (call'.ret.list = <<>> /\ RegistriesUnchanged)
       /\ (call'.name = "lambda.invoke_function" /\ ~DictHas(lam, call'.id))
          => /\ DOMAIN call'.ret.map = {"error"}
             /\ "status_code" \notin DOMAIN call'.ret.map
             /\ RegistriesUnchanged]_vars

\* modify_instance with new values for an unknown database returned false
\* while the registry holds another database
C17_Witness ==
    /\ call.name = "rds.modify_instance"
    /\ call.id = "d2"
    /\ DOMAIN call.config # {}
    /\ ~call.ret.bool
    /\ rds # <<>>
    /\ ~DictHas(rds, "d2")

\* the number of objects of a bucket that have the key
ObjectsWithKey(bucket, key) ==
    Cardinality({i \in 1..Len(bucket.objects) : bucket.objects[i].key = key})

\* C18: in every bucket no two objects have the same key; a put_object with a
\* key that is in the bucket replaces the object, so that afterwards the
\* bucket holds one object with the key, whose size is the length of the body
\* just put, and the objects with other keys are the ones it held before.
C18_KeysUnique ==
    [][/\ \A i \in 1..Len(s3') :
            \A j, k \in 1..Len(s3'[i].v.objects) :
                s3'[i].v.objects[j].key = s3'[i].v.objects[k].key => j = k
       /\ (call'.name = "s3.put_object" /\ DictHas(s3, call'.id))
          => LET before == DictGet(s3, call'.id)
                 after  == DictGet(s3', call'.id)
                 body   == Arg(call'.config, "body", "")
             IN  /\ call'.ret.bool
                 /\ ObjectsWithKey(after, call'.key) = 1
                 /\ \A j \in 1..Len(after.objects) :
                       after.objects[j].key = call'.key
                       => after.objects[j].size = Len(body)
                 /\ SelectSeq(after.objects, LAMBDA obj : obj.key # call'.key)
                       = SelectSeq(before.objects, LAMBDA obj : obj.key # call'.key)]_vars

\* the second put_object of the same key and body left one object with that
\* key beside the object with the other key
C18_Witness ==
    /\ call.name = "s3.put_object"
    /\ call.id = "b1"
    /\ call.key = "k1"
    /\ call.config = [body |-> "x"]
    /\ DictHas(s3, "b1")
    /\ Len(DictGet(s3, "b1").objects) = 2
    /\ ObjectsWithKey(DictGet(s3, "b1"), "k1") = 1
    /\ DictGet(s3, "b1").objects[2].key = "k1"
    /\ DictGet(s3, "b1").objects[1].size = 0
    /\ DictGet(s3, "b1").size_bytes = 2

\* C19: tag_instance(id, T) on an instance of the registry returns true and
\* merges T into the tag map of the instance: afterwards every key of T has
\* T's value, every earlier key outside T has its earlier value, and the keys
\* are the earlier ones and those of T, so none is removed.
C19_TagMerge ==
    [][(call'.name = "ec2.tag_instance" /\ DictHas(ec2, call'.id))
       => LET old == DictGet(ec2, call'.id).tags
              new == DictGet(ec2', call'.id).tags
              T   == call'.tags
          IN  /\ call'.ret.bool
              /\ DOMAIN new = DOMAIN old \cup DOMAIN T
              /\ \A k \in DOMAIN T : new[k] = T[k]
              /\ \A k \in DOMAIN old \ DOMAIN T : new[k] = old[k]]_vars

\* an instance tagged Name and Owner was tagged Name and env: Name has the
\* new value, Owner is kept and env is added
C19_Witness ==
    /\ call.name = "ec2.tag_instance"
    /\ call.ret.bool
    /\ call.tags = [Name |-> "x", env |-> "p"]
    /\ DictGet(ec2, call.id).tags = [Name |-> "x", Owner |-> "ops", env |-> "p"]

\* C20: get_infrastructure_status returns a map with the four keys
\* ec2_instances, s3_buckets, rds_instances and lambda_functions, each holding
\* what the unfiltered list of that manager returns at that time, so every
\* record of every registry is in it, terminated instances included.
C20_StatusIsLists ==
    call.name = "get_infrastructure_status"
    => LET status == call.ret.status
       IN  /\ DOMAIN status = {"ec2_instances", "s3_buckets", "rds_instances",
                               "lambda_functions"}
           /\ status.ec2_instances = EC2_list_instances(ec2, None)
           /\ status.s3_buckets = list_buckets(s3)
           /\ status.rds_instances = RDS_list_instances(rds, None)
           /\ status.lambda_functions = list_functions(lam)
           /\ \A i \in 1..Len(ec2) : ec2[i].v \in Range(status.ec2_instances)
           /\ \A i \in 1..Len(s3) : s3[i].v \in Range(status.s3_buckets)
           /\ \A i \in 1..Len(rds) : rds[i].v \in Range(status.rds_instances)
           /\ \A i \in 1..Len(lam) : lam[i].v \in Range(status.lambda_functions)

\* the status taken after a destroy shows the two terminated instances and
\* the bucket that was not deleted because it holds an object
C20_Witness ==
    /\ call.name = "get_infrastructure_status"
    /\ Len(call.ret.status.ec2_instances) = 2
    /\ \A i \in 1..2 : call.ret.status.ec2_instances[i].state = "terminated"
    /\ Len(call.ret.status.s3_buckets) = 1
    /\ call.ret.status.s3_buckets[1].objects # <<>>
    /\ call.ret.status.rds_instances = <<>>

\* the calls that only read: get and list of each manager, list_objects and
\* the status of the orchestrator
ReadCalls ==
    {"ec2.get_instance_info", "ec2.list_instances", "s3.get_bucket_info",
     "s3.list_buckets", "s3.list_objects", "rds.get_instance_info",
     "rds.list_instances", "lambda.get_function_info", "lambda.list_functions",
     "get_infrastructure_status"}

\* what a get of identifier id answers from registry reg: the record stored
\* under id, or the not-found value when no record is stored under it
IsLookup(info, reg, id) ==
    \/ \E i \in 1..Len(reg) : reg[i].k = id /\ info = reg[i].v
    \/ (\A i \in 1..Len(reg) : reg[i].k # id) /\ info = Null

\* C21: the read operations (get of each manager, list of each manager with
\* or without a filter, list_objects, and the aggregate status) leave all
\* four registries exactly as they were; a get returns the record stored
\* under a known identifier and the not-found value for an unknown one.
C21_ReadsOnlyRead ==
    [][/\ call'.name \in ReadCalls => RegistriesUnchanged
       /\ call'.name = "ec2.get_instance_info"
          => IsLookup(call'.ret.info, ec2, call'.id)
       /\ call'.name = "s3.get_bucket_info"
          => IsLookup(call'.ret.info, s3, call'.id)
       /\ call'.name = "rds.get_instance_info"
          => IsLookup(call'.ret.info, rds, call'.id)
       /\ call'.name = "lambda.get_function_info"
          => IsLookup(call'.ret.info, lam, call'.id)]_vars

\* a get of the second of two functions returned that function's record, and
\* both records are still in the registry
C21_Witness ==
    /\ call.name = "lambda.get_function_info"
    /\ Len(lam) = 2
    /\ call.id = lam[2].k
    /\ call.ret.info = lam[2].v

\* the identifiers of the records of the four unfiltered lists, in list order
ListedIds(instances, buckets, dbs, functions) ==
    LET l1 == EC2_list_instances(instances, None)
        l2 == list_buckets(buckets)
        l3 == RDS_list_instances(dbs, None)
        l4 == list_functions(functions)
    IN  [ec2_instances |-> [i \in 1..Len(l1) |-> l1[i].instance_id],
         s3_buckets |-> [i \in 1..Len(l2) |-> l2[i].bucket_name],
         rds_instances |-> [i \in 1..Len(l3) |-> l3[i].db_instance_identifier],
         lambda_functions |-> [i \in 1..Len(l4) |-> l4[i].function_name]]

\* the place of identifier id in the list of identifiers ids
Place(ids, id) == CHOOSE i \in 1..Len(ids) : ids[i] = id

\* list after comes from list before by insertions at the end and removals:
\* the identifiers found in both keep their relative order, and an identifier
\* that is only in after stands behind every identifier that was in before
InsertionOrderKept(before, after) ==
    \E old \in {Range(before)} :
        \A i, j \in 1..Len(after) :
            /\ i < j /\ after[i] \in old /\ after[j] \in old
               => Place(before, after[i]) < Place(before, after[j])
            /\ after[i] \in old /\ after[j] \notin old => i < j

\* C22: an unfiltered list returns the records in insertion order: the order
\* in which their identifiers were most recently inserted.  No call moves a
\* record that stays (a duplicate create included), and an identifier that is
\* inserted, for the first time or again after its delete, appears after
\* every record that was already present.  (A step that leaves the four
\* registries as they were leaves the four lists as they were.)
C22_InsertionOrder ==
    [][~RegistriesUnchanged
       => \E before \in {ListedIds(ec2, s3, rds, lam)},
             after \in {ListedIds(ec2', s3', rds', lam')} :
              \A kind \in DOMAIN after : InsertionOrderKept(before[kind], after[kind])]_vars

\* bucket b1 has just been created while b2 was there, with an object in
\* it, and the list shows b1 behind b2
C22_Witness ==
    /\ call.name = "s3.create_bucket"
    /\ call.config.bucket_name = "b1"
    /\ ListedIds(ec2, s3, rds, lam).s3_buckets = <<"b2", "b1">>
    /\ list_buckets(s3)[1].objects # <<>>
    /\ list_buckets(s3)[2].objects = <<>>

\* C23: no database record ever has the status deleting between operations:
\* after every call each record of the registry is available or stopped, and
\* delete_instance on a record of the registry returns true and removes the
\* record within the same call, whatever its status was.
C23_NeverDeleting ==
    [][/\ \A i \in 1..Len(rds') : rds'[i].v.status \in {"available", "stopped"}
       /\ call'.name = "rds.delete_instance" /\ DictHas(rds, call'.id)
          => /\ DictGet(rds, call'.id).status \in {"available", "stopped"}
             /\ call'.ret.bool
             /\ ~DictHas(rds', call'.id)
             /\ Len(rds') = Len(rds) - 1]_vars

\* one of two database instances has just been deleted; the one that stays
\* is stopped
C23_Witness ==
    /\ call.name = "rds.delete_instance"
    /\ call.ret.bool
    /\ Len(rds) = 1
    /\ rds[1].k # call.id
    /\ rds[1].v.status = "stopped"

\* C26: invoke_function on a function of the registry increases that
\* function's invocation counter by exactly 1, changes no other field and no
\* other function, and returns the success payload with status code 200.  A
\* record enters the registry with counter 0 and only a successful invoke of
\* it changes the counter, so in every reachable state the counter is the
\* number of successful invokes since the record was created.
C26_InvokeCounts ==
    [][/\ \A i \in 1..Len(lam') :
              lam'[i].v.invocations =
                  IF ~DictHas(lam, lam'[i].k)
                  THEN 0
                  ELSE IF call'.name = "lambda.invoke_function" /\ call'.id = lam'[i].k
                       THEN DictGet(lam, lam'[i].k).invocations + 1
                       ELSE DictGet(lam, lam'[i].k).invocations
       /\ call'.name = "lambda.invoke_function" /\ DictHas(lam, call'.id)
          => /\ call'.ret.map.status_code = 200
             /\ call'.ret.map.payload.input = call'.payload
             /\ Len(lam') = Len(lam)
             /\ \A i \in 1..Len(lam) :
                    IF lam[i].k = call'.id
                    THEN lam'[i] = [lam[i] EXCEPT !.v.invocations = @ + 1]
                    ELSE lam'[i] = lam[i]
             /\ <<ec2', s3', rds'>> = <<ec2, s3, rds>>]_vars

\* the second of two functions has just been invoked for the second time
\* while the first has been invoked once
C26_Witness ==
    /\ call.name = "lambda.invoke_function"
    /\ call.ret.map = [status_code |-> 200, executed_version |-> "$LATEST",
                       payload |-> [message |-> "Function executed successfully (simulated)",
                                    input |-> [data |-> "test"]]]
    /\ Len(lam) = 2
    /\ call.id = lam[2].k
    /\ lam[2].v.invocations = 2
    /\ lam[1].v.invocations = 1

\* C27: create_snapshot and add_permission are pure acknowledgements:
\* create_snapshot on an instance of the registry, in any status, returns the
\* snapshot identifier it was given, add_permission on a function of the
\* registry returns true, and every registry is left exactly as it was.
C27_Acknowledgements ==
    [][/\ call'.name = "rds.create_snapshot"
          => /\ RegistriesUnchanged
             /\ DictHas(rds, call'.id) => call'.ret.id = call'.snapshot_identifier
       /\ call'.name = "lambda.add_permission"
          => /\ RegistriesUnchanged
             /\ DictHas(lam, call'.id) => call'.ret.bool]_vars

\* a snapshot of a stopped instance has been acknowledged with its identifier
C27_Witness ==
    /\ call.name = "rds.create_snapshot"
    /\ call.ret.id = "snap-2"
    /\ DictHas(rds, call.id)
    /\ DictGet(rds, call.id).status = "stopped"

\* the database record info with each of instance_class, allocated_storage and
\* backup_retention_period that is supplied in p set to the supplied value
WithSupplied(info, p) ==
    [field \in DOMAIN info |->
        IF field \in DOMAIN p
              \cap {"instance_class", "allocated_storage", "backup_retention_period"}
        THEN p[field]
        ELSE info[field]]

\* C28: modify_instance on an instance of the registry returns true, sets
\* each of instance_class, allocated_storage and backup_retention_period to
\* the supplied value whenever a value is supplied for it, zero included, and
\* leaves every field that was not supplied, the status and all other
\* instances unchanged.
C28_ModifySetsSupplied ==
    [][call'.name = "rds.modify_instance" /\ DictHas(rds, call'.id)
       => /\ call'.ret.bool
          /\ Len(rds') = Len(rds)
          /\ \A i \in 1..Len(rds) :
                 /\ rds'[i].k = rds[i].k
                 /\ rds'[i].v = IF rds[i].k = call'.id
                                THEN WithSupplied(rds[i].v, call'.config)
                                ELSE rds[i].v]_vars

\* C29: a database record's port is derived from its engine at creation and
\* never changes afterwards: after every call each record's port is 3306
\* exactly when its engine is mysql and 5432 for every other engine, and a
\* record that stays in the registry keeps its engine and its port.
C29_PortFromEngine ==
    [][\A i \in 1..Len(rds') :
           /\ rds'[i].v.port = 3306 <=> rds'[i].v.engine = "mysql"
           /\ rds'[i].v.port = 5432 <=> rds'[i].v.engine # "mysql"
           /\ DictHas(rds, rds'[i].k)
              => /\ rds'[i].v.port = DictGet(rds, rds'[i].k).port
                 /\ rds'[i].v.engine = DictGet(rds, rds'[i].k).engine]_vars

\* a mariadb instance that has been stopped stands beside a mysql instance
\* that has just been modified
C29_Witness ==
    /\ call.name = "rds.modify_instance"
    /\ call.ret.bool
    /\ call.config # Empty
    /\ Len(rds) = 2
    /\ \E i, j \in 1..2 :
           /\ rds[i].v.engine = "mariadb" /\ rds[i].v.port = 5432
           /\ rds[i].v.status = "stopped"
           /\ rds[j].k = call.id /\ rds[j].v.engine = "mysql" /\ rds[j].v.port = 3306

\* C30: delete_object on a key present in the bucket returns true and removes
\* exactly the object with that key, leaving every other object of that
\* bucket and every other bucket unchanged; on a key not present it returns
\* false and leaves the bucket's objects and size_bytes unchanged.
C30_DeleteObject ==
    [][call'.name = "s3.delete_object" /\ DictHas(s3, call'.id)
       => LET objects == DictGet(s3, call'.id).objects
          IN  IF \E i \in 1..Len(objects) : objects[i].key = call'.key
              THEN /\ call'.ret.bool
                   /\ Len(s3') = Len(s3)
                   /\ \A i \in 1..Len(s3) :
                          /\ s3'[i].k = s3[i].k
                          /\ s3[i].k # call'.id => s3'[i] = s3[i]
                   /\ DictGet(s3', call'.id).objects
                          = SelectSeq(objects, LAMBDA obj : obj.key # call'.key)
                   /\ Len(DictGet(s3', call'.id).objects) = Len(objects) - 1
              ELSE /\ ~call'.ret.bool
                   /\ DictGet(s3', call'.id).objects = objects
                   /\ DictGet(s3', call'.id).size_bytes = DictGet(s3, call'.id).size_bytes
                   /\ s3' = s3]_vars

\* one of the two objects of a bucket has just been deleted: the other one is
\* still there, and so is the object of the other bucket
C30_Witness ==
    /\ call.name = "s3.delete_object"
    /\ call.ret.bool
    /\ Len(s3) = 2
    /\ Len(DictGet(s3, call.id).objects) = 1
    /\ DictGet(s3, call.id).objects[1].key # call.key
    /\ \E i \in 1..2 : s3[i].k # call.id /\ s3[i].v.objects # <<>>

\* caller t takes in this step the statement that leads from pc to next
Takes(t, pc, next) == caller[t].pc = pc /\ caller'[t].pc = next

\* the caller that is not t
Other(t) == CHOOSE u \in Callers : u # t

\* C24: with two callers and no mutual exclusion the check-duplicate-then-
\* insert steps of create race.  A create passes the duplicate check exactly
\* when the identifier is absent at the time of the check, and its insert
\* stores its own record whatever the registry holds by then: when the other
\* caller's create of the same identifier has passed the check too and has
\* inserted in between, the later insert overwrites that record, which no
\* longer holds the first call's attributes.
C24_LaterInsertOverwrites ==
    [][\A t \in Callers :
           /\ caller[t].pc = "idle" /\ caller'[t].op = "s3.create_bucket"
              /\ caller'[t].left < caller[t].left
              => caller'[t].passed = ~DictHas(s3, caller'[t].name)
           /\ Takes(t, "create_bucket:insert", "idle")
              => /\ caller[t].passed
                 /\ DictGet(s3', caller[t].name) = bucket_info(RaceBucketConfigs[t])
                 /\ DictHas(s3, caller[t].name)
                    => /\ DictGet(s3, caller[t].name).region
                              = bucket_info(RaceBucketConfigs[Other(t)]).region
                       /\ DictGet(s3', caller[t].name).region
                              # DictGet(s3, caller[t].name).region
           /\ caller[t].pc = "idle" /\ caller'[t].op = "rds.create_instance"
              /\ caller'[t].left < caller[t].left
              => caller'[t].passed = ~DictHas(rds, caller'[t].name)
           /\ Takes(t, "create_instance:insert", "idle")
              => /\ caller[t].passed
                 /\ DictGet(rds', caller[t].name) = instance_info(RaceDbConfigs[t])
                 /\ DictHas(rds, caller[t].name)
                    => /\ DictGet(rds, caller[t].name) = instance_info(RaceDbConfigs[Other(t)])
                       /\ DictGet(rds', caller[t].name).engine
                              # DictGet(rds, caller[t].name).engine]_vars

\* each caller has made one call, a create of bucket b1; both calls passed
\* the duplicate check and have returned, and the bucket holds the second
\* caller's attributes only
C24_Witness ==
    /\ \A t \in Callers :
           /\ caller[t].pc = "idle"
           /\ caller[t].op = "s3.create_bucket"
           /\ caller[t].left = MaxCalls - 1
           /\ caller[t].passed
    /\ DictGet(s3, "b1") = bucket_info(RaceBucketConfigs[2])
    /\ DictGet(s3, "b1").region # bucket_info(RaceBucketConfigs[1]).region

\* the two put_object calls are the only calls besides the create of the
\* bucket, and both have returned true
TwoPutsDone ==
    /\ constructed = "S3Manager"
    /\ \A t \in Callers :
           /\ caller[t].pc = "idle"
           /\ caller[t].op = "s3.put_object"
           /\ caller[t].ret = [bool |-> TRUE]
    /\ \E t \in Callers :
           /\ caller[t].left = MaxCalls - 2
           /\ caller[Other(t)].left = MaxCalls - 1

\* C25: with two callers and no mutual exclusion the steps of two put_object
\* calls with different keys on the same bucket interleave: the store writes
\* the list as it was filtered one step earlier and the size write adds to
\* the size as it was read one step earlier, whatever the other call did in
\* between.  So the two calls can end with only one of the two objects in the
\* bucket, or with a size_bytes that misses one of the two additions; at
\* least one object and at least one addition are always there.
C25_PutStepsInterleave ==
    [][/\ \A t \in Callers :
              /\ Takes(t, "put_object:store", "put_object:append") /\ ~caller[t].detached
                 => DictGet(s3', caller[t].name).objects = caller[t].kept
              /\ Takes(t, "put_object:add_size", "idle") /\ ~caller[t].detached
                 => DictGet(s3', caller[t].name).size_bytes
                        = caller[t].size_read + caller[t].info.size
       /\ TwoPutsDone'
          => LET o1 == object_info(RacePutCalls[1])
                 o2 == object_info(RacePutCalls[2])
                 bucket == DictGet(s3', "b1")
             IN  /\ bucket.objects \in {<<o1>>, <<o2>>, <<o1, o2>>, <<o2, o1>>}
                 /\ bucket.size_bytes \in {o1.size, o2.size, o1.size + o2.size}]_vars

\* both put_object calls have returned true, and the bucket holds the first
\* caller's object only and a size_bytes that counts the second caller's
\* object only
C25_Witness ==
    /\ TwoPutsDone
    /\ DictGet(s3, "b1").objects = <<object_info(RacePutCalls[1])>>
    /\ DictGet(s3, "b1").size_bytes = object_info(RacePutCalls[2]).size

\* C31: terminated is absorbing for compute instances: once the state of an
\* instance is terminated, no create, stop, start, terminate, tag or
\* orchestrator call changes the state found under its identifier again.
C31_TerminatedIsAbsorbing ==
    [][\A i \in 1..Len(ec2) :
           ec2[i].v.state = "terminated"
           => /\ DictHas(ec2', ec2[i].k)
              /\ DictGet(ec2', ec2[i].k).state = "terminated"]_vars

\* C32: in every reachable state the size_bytes of a bucket is non-negative
\* and at least the sum of the sizes of the objects currently in the bucket.
C32_SizeAtLeastSum ==
    \A i \in 1..Len(s3) :
        /\ s3[i].v.size_bytes >= 0
        /\ s3[i].v.size_bytes >= SumSizes(s3[i].v.objects)

\* an object has just been deleted from a bucket whose size_bytes counts an
\* object that was replaced: the size is above the sum of what is left
C32_Witness ==
    /\ call.name = "s3.delete_object"
    /\ call.ret.bool
    /\ DictGet(s3, call.id).objects # <<>>
    /\ SumSizes(DictGet(s3, call.id).objects) = 1
    /\ DictGet(s3, call.id).size_bytes = 2

\* C33: tag_instance on one compute instance changes only that instance's tag
\* map: the record of every other instance, its tags included, is unchanged,
\* also when both instances were created from the same tag mapping.
C33_TagChangesOneInstance ==
    [][call'.name = "ec2.tag_instance"
       => /\ Len(ec2') = Len(ec2)
          /\ \A i \in 1..Len(ec2) :
                 /\ ec2'[i].k = ec2[i].k
                 /\ ec2[i].k # call'.id => ec2'[i] = ec2[i]
                 /\ ec2[i].k = call'.id
                    => ec2'[i].v = [ec2[i].v EXCEPT !.tags = ec2'[i].v.tags]]_vars

\* C34: for the storage, database and function kinds the count destroy
\* returns is the number of distinct listed identifiers that were in the
\* registry before the call and, for buckets, held no objects: an identifier
\* listed twice counts once, and a bucket that holds objects is neither
\* removed nor counted, because destroy never forces a deletion.
C34_DestroyCounts ==
    [][call'.name = "destroy_infrastructure"
       => LET listed(kind) == Range(Arg(call'.resource_ids, kind, <<>>))
              counts == call'.ret.counts
          IN  /\ counts.s3_deleted
                     = Cardinality({b \in listed("s3_buckets") :
                                       DictHas(s3, b) /\ DictGet(s3, b).objects = <<>>})
              /\ counts.rds_deleted
                     = Cardinality({d \in listed("rds_instances") : DictHas(rds, d)})
              /\ counts.lambda_deleted
                     = Cardinality({f \in listed("lambda_functions") : DictHas(lam, f)})
              /\ \A i \in 1..Len(s3) :
                     s3[i].v.objects # <<>> => DictHas(s3', s3[i].k)]_vars

\* a destroy that listed two buckets has deleted and counted the empty one;
\* the one that holds an object is still there
C34_Witness ==
    /\ call.name = "destroy_infrastructure"
    /\ Arg(call.resource_ids, "s3_buckets", <<>>) = <<"b2", "b1">>
    /\ call.ret.counts.s3_deleted = 1
    /\ s3 # <<>>
    /\ s3[1].k = "b1"
    /\ s3[1].v.objects # <<>>

\* C35: for the compute kind the count destroy returns is the number of
\* listed identifiers, with multiplicity, that are in the compute registry,
\* whatever their state: terminating a terminated instance returns true
\* again.  So a destroy called a second time with the same identifiers
\* returns the same compute count, while its storage, database and function
\* counts are 0.
C35_ComputeCount ==
    [][call'.name = "destroy_infrastructure"
       => LET ids == Arg(call'.resource_ids, "ec2_instances", <<>>)
              counts == call'.ret.counts
          IN  /\ counts.ec2_terminated
                     = Cardinality({i \in 1..Len(ids) : DictHas(ec2, ids[i])})
              /\ call.name = "destroy_infrastructure"
                 /\ call.resource_ids = call'.resource_ids
                 => /\ counts.ec2_terminated = call.ret.counts.ec2_terminated
                    /\ counts.s3_deleted = 0
                    /\ counts.rds_deleted = 0
                    /\ counts.lambda_deleted = 0]_vars

\* a destroy of two instances and two buckets has counted both instances,
\* which are terminated, and no bucket: the only bucket left holds an object
C35_Witness ==
    /\ call.name = "destroy_infrastructure"
    /\ Arg(call.resource_ids, "ec2_instances", <<>>) = <<"i-2", "i-1">>
    /\ call.ret.counts.ec2_terminated = 2
    /\ call.ret.counts.s3_deleted = 0
    /\ \A i \in 1..Len(ec2) : ec2[i].v.state = "terminated"
    /\ Len(s3) = 1
    /\ s3[1].v.objects # <<>>

\* the call of this step is method create on the identifier that the call
\* before it, method delete, has deleted with success
CreateAfterDelete(delete, create, field) ==
    /\ call.name = delete
    /\ call.ret.bool
    /\ call'.name = create
    /\ call'.config[field] = call.id

\* C36: the idempotent-create no-op applies only while the record exists: for
\* storage, database and function, a create that follows a successful delete
\* of the same identifier inserts a fresh record built from the parameters
\* of the new call, in the initial state, with no objects and size 0 for a
\* bucket and invocation counter 0 for a function.
C36_CreateAfterDelete ==
    [][/\ CreateAfterDelete("s3.delete_bucket", "s3.create_bucket", "bucket_name")
          => /\ call'.ret.id = call.id
             /\ DictHas(s3', call.id)
             /\ RoundTrip(DictGet(s3', call.id), call'.config, create_bucket_defaults)
             /\ DictGet(s3', call.id).objects = <<>>
             /\ DictGet(s3', call.id).size_bytes = 0
       /\ CreateAfterDelete("rds.delete_instance", "rds.create_instance",
                            "db_instance_identifier")
          => /\ call'.ret.id = call.id
             /\ DictHas(rds', call.id)
             /\ RoundTripBut(DictGet(rds', call.id), call'.config,
                             RDS_create_instance_defaults, {"master_password", "db_name"})
             /\ DictGet(rds', call.id).status = "available"
       /\ CreateAfterDelete("lambda.delete_function", "lambda.create_function",
                            "function_name")
          => /\ call'.ret.id = call.id
             /\ DictHas(lam', call.id)
             /\ RoundTripBut(DictGet(lam', call.id), call'.config,
                             create_function_defaults, {"code"})
             /\ DictGet(lam', call.id).state = "Active"
             /\ DictGet(lam', call.id).invocations = 0]_vars

\* function f1 has just been created with every keyword supplied and stands
\* behind f2, which has been invoked twice: f1 is new, with counter 0
C36_Witness ==
    /\ call.name = "lambda.create_function"
    /\ call.config = [function_name |-> "f1"] @@ LambdaRich
    /\ Len(lam) = 2
    /\ lam[1].k = "f2"
    /\ lam[1].v.invocations = 2
    /\ lam[2].k = "f1"
    /\ lam[2].v.invocations = 0
    /\ lam[2].v.description = "worker"

\* C37: the compute registry never shrinks: no operation of a manager or of
\* the orchestrator removes a compute record, so the set of identifiers in
\* the compute registry only grows, and the identifier field of each record
\* always equals its registry key.
C37_ComputeNeverShrinks ==
    [][/\ \A i \in 1..Len(ec2) : DictHas(ec2', ec2[i].k)
       /\ Len(ec2') >= Len(ec2)
       /\ \A i \in 1..Len(ec2') : ec2'[i].v.instance_id = ec2'[i].k]_vars

\* a destroy that lists both instances has terminated them, and both records
\* are still in the registry under their own identifiers, with the database
\* and the function that the same call lists removed
C37_Witness ==
    /\ call.name = "destroy_infrastructure"
    /\ call.ret.counts.ec2_terminated = 2
    /\ call.ret.counts.rds_deleted + call.ret.counts.lambda_deleted >= 1
    /\ Len(ec2) = 2
    /\ \A i \in 1..Len(ec2) :
           /\ ec2[i].v.state = "terminated"
           /\ ec2[i].v.instance_id = ec2[i].k
    /\ ec2[1].k # ec2[2].k

\* the method names of each manager, as the calls record them
EC2Calls ==
    {"ec2.create_instance", "ec2.terminate_instance", "ec2.stop_instance",
     "ec2.start_instance", "ec2.get_instance_info", "ec2.list_instances",
     "ec2.tag_instance"}

S3Calls ==
    {"s3.create_bucket", "s3.delete_bucket", "s3.put_object", "s3.delete_object",
     "s3.list_buckets", "s3.list_objects", "s3.get_bucket_info", "s3.enable_versioning"}

RDSCalls ==
    {"rds.create_instance", "rds.delete_instance", "rds.stop_instance",
     "rds.start_instance", "rds.create_snapshot", "rds.get_instance_info",
     "rds.list_instances", "rds.modify_instance"}

LambdaCalls ==
    {"lambda.create_function", "lambda.delete_function", "lambda.invoke_function",
     "lambda.update_function_code", "lambda.update_function_configuration",
     "lambda.get_function_info", "lambda.list_functions", "lambda.add_permission"}

\* the part of the argument of a provision or destroy call that is handed to
\* the manager of one kind; nothing when the key is absent
HandedTo(key) ==
    IF call'.name = "provision_infrastructure"
    THEN Arg(call'.infrastructure_config, key, <<>>)
    ELSE Arg(call'.resource_ids, key, <<>>)

\* C38: the four registries are independent: an operation on one manager,
\* called directly or through provision or destroy, leaves the registries of
\* the other three managers unchanged.
C38_RegistriesIndependent ==
    [][/\ call'.name \in EC2Calls => <<s3', rds', lam'>> = <<s3, rds, lam>>
       /\ call'.name \in S3Calls => <<ec2', rds', lam'>> = <<ec2, rds, lam>>
       /\ call'.name \in RDSCalls => <<ec2', s3', lam'>> = <<ec2, s3, lam>>
       /\ call'.name \in LambdaCalls => <<ec2', s3', rds'>> = <<ec2, s3, rds>>
       /\ call'.name = "provision_infrastructure"
          => /\ HandedTo("ec2") = <<>> => ec2' = ec2
             /\ HandedTo("s3") = <<>> => s3' = s3
             /\ HandedTo("rds") = <<>> => rds' = rds
             /\ HandedTo("lambda") = <<>> => lam' = lam
       /\ call'.name = "destroy_infrastructure"
          => /\ HandedTo("ec2_instances") = <<>> => ec2' = ec2
             /\ HandedTo("s3_buckets") = <<>> => s3' = s3
             /\ HandedTo("rds_instances") = <<>> => rds' = rds
             /\ HandedTo("lambda_functions") = <<>> => lam' = lam]_vars

====
